---- MODULE Spec2Model ----
(***************************************************************************)
(* Model of the HAR comparison tool of compare.py: the capture parser      *)
(* (HarParser.parse_har_file), the record comparator                       *)
(* (RequestComparator.compare_requests), the path-aware sequence aligner   *)
(* (RequestComparator.align_requests_like_vscode, built on                 *)
(* difflib.SequenceMatcher.get_opcodes), the formatter (JsonFormatter),    *)
(* the highlighting of the detail view and the main window                 *)
(* (HarCompareGUI).                                                        *)
(*                                                                         *)
(* Indices are 0-based as in the source; a[i] of the source is a[i+1]      *)
(* here.  An absent index (Python None) is the integer None == -1, an      *)
(* absent body (Python None) is the empty tuple NoBody, a present body s   *)
(* is the 1-tuple <<s>>, so that an absent body differs from the empty     *)
(* string body <<EmptyStr>>.  A text (payload, rendered content, line) is  *)
(* the sequence of its characters; the fixed Russian literals of the       *)
(* source are single opaque characters named by their transliteration.     *)
(* Header names and values, methods and the paths given to the comparator  *)
(* and to the aligner are only copied and compared as wholes and are       *)
(* written as strings.                                                     *)
(***************************************************************************)
EXTENDS Integers, Sequences, FiniteSets, TLC

VARIABLES
    pc,              \* which pure function the behaviour exercises, and whether it has run
    req1, req2,      \* arguments req1, req2 of compare_requests and of the tab builders
    keys_only,       \* argument keys_only of compare_requests and of the tab builders
    comparison_result, \* value returned by compare_requests
    requests1, requests2, \* arguments of align_requests_like_vscode
    opcodes,         \* local opcodes of align_requests_like_vscode
    aligned_pairs,   \* value returned by align_requests_like_vscode
    json_str,        \* argument of format_json_string
    formatted,       \* value returned by format_json_string(json_str)
    reformatted,     \* value returned by format_json_string(formatted)
    file_path,       \* argument of parse_har_file
    har_file,        \* what is stored under file_path
    parse_result,    \* outcome of parse_har_file(file_path)
    content_type,    \* category of the tab built last
    text1, text2,    \* the two Text widgets of that tab: content and tags per line
    to_compare,      \* what the two .har files of the folder 'to compare' hold
    self             \* the HarCompareGUI object: its fields and widgets

vars == <<pc, req1, req2, keys_only, comparison_result,
          requests1, requests2, opcodes, aligned_pairs,
          json_str, formatted, reformatted,
          file_path, har_file, parse_result,
          content_type, text1, text2,
          to_compare, self>>

compareVars == <<req1, req2, keys_only, comparison_result>>
alignVars == <<requests1, requests2, opcodes, aligned_pairs>>
formatVars == <<json_str, formatted, reformatted>>
parseVars == <<file_path, har_file, parse_result>>
tabVars == <<content_type, text1, text2>>
guiVars == <<to_compare, self>>

(***************************************************************************)
(* Bounds of the model                                                     *)
(***************************************************************************)
NumPaths == 3          \* distinct paths in the aligned captures
MaxLen == 3            \* longest capture given to the aligner
NumHeaderMaps == 4     \* distinct request-header mappings of a compared record
NumParamMaps == 5      \* distinct query-parameter mappings of a compared record
NumResponses == 3      \* distinct responses of a compared record

PathPool == <<"/a", "/b", "/c", "/d", "/e">>
Paths == {PathPool[i] : i \in 1..NumPaths}
ComparePaths == {"/a", "/b"}
Methods == {"GET", "POST"}

None == -1
NoBody == <<>>
EmptyStr == <<>>
EmptyDict == [n \in {} |-> ""]

\* request-header mappings (name -> value)
HeaderMapPool ==
    << EmptyDict,
       [n \in {"Accept"} |-> "1"],
       [n \in {"Accept"} |-> "2"],
       [n \in {"Host"} |-> "1"],
       [n \in {"Accept", "Host"} |-> "1"],
       [n \in {"Accept", "Host"} |-> IF n = "Host" THEN "2" ELSE "1"] >>
HeaderMaps == {HeaderMapPool[i] : i \in 1..NumHeaderMaps}

\* query-parameter mappings (name -> list of values)
ParamMapPool ==
    << EmptyDict,
       [n \in {"id"} |-> <<"1">>],
       [n \in {"page"} |-> <<"1">>],
       [n \in {"id"} |-> <<"1", "2">>],
       [n \in {"id"} |-> <<"2", "1">>],
       [n \in {"id", "page"} |-> <<"1">>],
       [n \in {"id"} |-> <<"2">>] >>
ParamMaps == {ParamMapPool[i] : i \in 1..NumParamMaps}

Bodies == {NoBody, <<EmptyStr>>, <<<<"{", "}">>>>}

ResponsePool ==
    << [response_status |-> 200, response_headers |-> EmptyDict, response_body |-> NoBody],
       [response_status |-> 404, response_headers |-> EmptyDict, response_body |-> NoBody],
       [response_status |-> 200, response_headers |-> EmptyDict, response_body |-> <<EmptyStr>>],
       [response_status |-> 200, response_headers |-> [n \in {"Server"} |-> "x"],
        response_body |-> NoBody] >>
Responses == {ResponsePool[i] : i \in 1..NumResponses}

\* dataclass HarRequest
HarRequest(method, path, headers, query_params, post_data, response, index) ==
    [method |-> method, url |-> path, path |-> path, headers |-> headers,
     query_params |-> query_params, post_data |-> post_data,
     response_status |-> response.response_status,
     response_headers |-> response.response_headers,
     response_body |-> response.response_body,
     index |-> index]

\* the records handed to compare_requests
CompareRecords ==
    {HarRequest(m, p, h, q, d, r, 0) :
        m \in Methods, p \in ComparePaths, h \in HeaderMaps,
        q \in ParamMaps, d \in Bodies, r \in Responses}

(***************************************************************************)
(* RequestComparator.compare_requests                                      *)
(***************************************************************************)
\* variant: the path gate is skipped in keys-only mode
compare_requests_gate_full_only(r1, r2, k) ==
    IF ~k /\ r1.path # r2.path THEN "different"
    ELSE IF k
         THEN IF /\ DOMAIN r1.query_params = DOMAIN r2.query_params
                 /\ DOMAIN r1.headers = DOMAIN r2.headers
              THEN "match" ELSE "partial"
         ELSE IF /\ r1.method = r2.method
                 /\ r1.query_params = r2.query_params
                 /\ r1.headers = r2.headers
                 /\ r1.post_data = r2.post_data
              THEN "match" ELSE "partial"

\* variant: keys-only mode compares the header mapping with its values
compare_requests_keys_with_values(r1, r2, k) ==
    IF r1.path # r2.path THEN "different"
    ELSE IF k
         THEN IF /\ DOMAIN r1.query_params = DOMAIN r2.query_params
                 /\ r1.headers = r2.headers
              THEN "match" ELSE "partial"
         ELSE IF /\ r1.method = r2.method
                 /\ r1.query_params = r2.query_params
                 /\ r1.headers = r2.headers
                 /\ r1.post_data = r2.post_data
              THEN "match" ELSE "partial"

\* variant: full mode treats an absent body and an empty body alike
compare_requests_body_truthiness(r1, r2, k) ==
    IF r1.path # r2.path THEN "different"
    ELSE IF k
         THEN IF /\ DOMAIN r1.query_params = DOMAIN r2.query_params
                 /\ DOMAIN r1.headers = DOMAIN r2.headers
              THEN "match" ELSE "partial"
         ELSE IF /\ r1.method = r2.method
                 /\ r1.query_params = r2.query_params
                 /\ r1.headers = r2.headers
                 /\ \/ r1.post_data = r2.post_data
                    \/ {r1.post_data, r2.post_data} \subseteq {NoBody, <<EmptyStr>>}
              THEN "match" ELSE "partial"

\* variant: full mode does not compare the request headers
compare_requests_full_without_headers(r1, r2, k) ==
    IF r1.path # r2.path THEN "different"
    ELSE IF k
         THEN IF /\ DOMAIN r1.query_params = DOMAIN r2.query_params
                 /\ DOMAIN r1.headers = DOMAIN r2.headers
              THEN "match" ELSE "partial"
         ELSE IF /\ r1.method = r2.method
                 /\ r1.query_params = r2.query_params
                 /\ r1.post_data = r2.post_data
              THEN "match" ELSE "partial"

compare_requests(r1, r2, k) ==
    IF r1.path # r2.path THEN "different"
    ELSE IF k
         THEN IF /\ DOMAIN r1.query_params = DOMAIN r2.query_params
                 /\ DOMAIN r1.headers = DOMAIN r2.headers
              THEN "match" ELSE "partial"
         ELSE IF /\ r1.method = r2.method
                 /\ r1.query_params = r2.query_params
                 /\ r1.headers = r2.headers
                 /\ r1.post_data = r2.post_data
              THEN "match" ELSE "partial"

\* the variables of the other functions while one function is exercised
CompareIdle ==
    /\ req1 = HarRequest("GET", "/a", EmptyDict, EmptyDict, NoBody, ResponsePool[1], 0)
    /\ req2 = HarRequest("GET", "/a", EmptyDict, EmptyDict, NoBody, ResponsePool[1], 0)
    /\ keys_only = FALSE
    /\ comparison_result = "none"
AlignIdle ==
    /\ requests1 = <<>> /\ requests2 = <<>>
    /\ opcodes = <<>> /\ aligned_pairs = <<>>
FormatIdle ==
    /\ json_str = NoBody
    /\ formatted = EmptyStr /\ reformatted = EmptyStr
ParseIdle ==
    /\ file_path = "" /\ har_file = <<"unreadable">>
    /\ parse_result = <<>>
GuiIdle ==
    /\ to_compare = <<>> /\ self = <<>>
TabIdle ==
    /\ content_type = ""
    /\ text1 = [content |-> EmptyStr, tags |-> <<>>]
    /\ text2 = [content |-> EmptyStr, tags |-> <<>>]

InitCompare ==
    /\ pc = "compare"
    /\ GuiIdle
    /\ req1 \in CompareRecords
    /\ req2 \in CompareRecords
    /\ keys_only = FALSE
    /\ comparison_result = "none"
    /\ AlignIdle
    /\ FormatIdle
    /\ ParseIdle
    /\ TabIdle

\* one call compare_requests(req1, req2, keys_only)
Compare ==
    /\ pc = "compare"
    /\ \E k \in BOOLEAN :
          /\ keys_only' = k
          /\ comparison_result' = compare_requests(req1, req2, k)
    /\ pc' = "compared"
    /\ UNCHANGED <<req1, req2>>
    /\ UNCHANGED <<alignVars, formatVars, parseVars, tabVars, guiVars>>

NextCompare == Compare

SpecCompare == InitCompare /\ [][NextCompare]_vars

(***************************************************************************)
(* difflib.SequenceMatcher(None, a, b), as used by                         *)
(* align_requests_like_vscode: isjunk is None, autojunk is on.             *)
(***************************************************************************)
AutojunkLen == 200

Max(x, y) == IF x >= y THEN x ELSE y

\* elements dropped from b2j by __chain_b: with autojunk and len(b) >= 200,
\* those occurring more than len(b) // 100 + 1 times
popular(b) ==
    IF Len(b) >= AutojunkLen
    THEN {b[j] : j \in {j \in 1..Len(b) :
              Cardinality({h \in 1..Len(b) : b[h] = b[j]}) > (Len(b) \div 100) + 1}}
    ELSE {}

\* newj2len[j] after row i of find_longest_match: the length of the run of
\* equal, non-popular elements ending at a[i], b[j] inside the window
RECURSIVE j2len(_, _, _, _, _, _)
j2len(a, b, alo, blo, i, j) ==
    IF i < alo \/ j < blo THEN 0
    ELSE IF a[i + 1] # b[j + 1] \/ b[j + 1] \in popular(b) THEN 0
    ELSE j2len(a, b, alo, blo, i - 1, j - 1) + 1

\* variant: the first run met is kept, whatever its length (k > bestsize
\* tested against 0)
best_run_first_met(a, b, alo, ahi, blo, bhi) ==
    LET cells == {c \in (alo..(ahi - 1)) \X (blo..(bhi - 1)) :
                     j2len(a, b, alo, blo, c[1], c[2]) > 0}
    IN IF cells = {} THEN <<alo, blo, 0>>
       ELSE LET first == CHOOSE c \in cells :
                    \A d \in cells :
                        \/ c[1] < d[1]
                        \/ c[1] = d[1] /\ c[2] <= d[2]
            IN <<first[1], first[2], 1>>

\* first loop of find_longest_match: the longest run, the first one met
\* when i and then j ascend (k > bestsize is strict)
best_run(a, b, alo, ahi, blo, bhi) ==
    LET cells == {c \in (alo..(ahi - 1)) \X (blo..(bhi - 1)) :
                     j2len(a, b, alo, blo, c[1], c[2]) > 0}
    IN IF cells = {} THEN <<alo, blo, 0>>
       ELSE LET first == CHOOSE c \in cells :
                    \A d \in cells :
                        LET kc == j2len(a, b, alo, blo, c[1], c[2])
                            kd == j2len(a, b, alo, blo, d[1], d[2])
                        IN \/ kc > kd
                           \/ kc = kd /\ c[1] < d[1]
                           \/ kc = kd /\ c[1] = d[1] /\ c[2] <= d[2]
                k == j2len(a, b, alo, blo, first[1], first[2])
            IN <<first[1] - k + 1, first[2] - k + 1, k>>

\* second loop: extend the run backwards over equal elements
RECURSIVE extend_back(_, _, _, _, _)
extend_back(a, b, alo, blo, m) ==
    IF m[1] > alo /\ m[2] > blo /\ a[m[1]] = b[m[2]]
    THEN extend_back(a, b, alo, blo, <<m[1] - 1, m[2] - 1, m[3] + 1>>)
    ELSE m

\* third loop: extend the run forwards over equal elements
RECURSIVE extend_forward(_, _, _, _, _)
extend_forward(a, b, ahi, bhi, m) ==
    IF m[1] + m[3] < ahi /\ m[2] + m[3] < bhi /\ a[m[1] + m[3] + 1] = b[m[2] + m[3] + 1]
    THEN extend_forward(a, b, ahi, bhi, <<m[1], m[2], m[3] + 1>>)
    ELSE m

\* SequenceMatcher.find_longest_match(alo, ahi, blo, bhi); no element is
\* junk, so the two junk-extension loops add nothing
find_longest_match(a, b, alo, ahi, blo, bhi) ==
    extend_forward(a, b, ahi, bhi,
        extend_back(a, b, alo, blo, best_run(a, b, alo, ahi, blo, bhi)))

\* variant: the part right of a match is never queued
RECURSIVE matching_blocks_left_only(_, _, _, _, _, _)
matching_blocks_left_only(a, b, alo, ahi, blo, bhi) ==
    LET m == find_longest_match(a, b, alo, ahi, blo, bhi)
    IN IF m[3] = 0 THEN <<>>
       ELSE (IF alo < m[1] /\ blo < m[2]
             THEN matching_blocks_left_only(a, b, alo, m[1], blo, m[2]) ELSE <<>>)
            \o <<m>>

\* variant: the part right of a match is queued with the old lower bound
\* blo of capture 2 instead of j + k
RECURSIVE matching_blocks_right_keeps_blo(_, _, _, _, _, _)
matching_blocks_right_keeps_blo(a, b, alo, ahi, blo, bhi) ==
    LET m == find_longest_match(a, b, alo, ahi, blo, bhi)
    IN IF m[3] = 0 THEN <<>>
       ELSE (IF alo < m[1] /\ blo < m[2]
             THEN matching_blocks_right_keeps_blo(a, b, alo, m[1], blo, m[2]) ELSE <<>>)
            \o <<m>> \o
            (IF m[1] + m[3] < ahi /\ m[2] + m[3] < bhi
             THEN matching_blocks_right_keeps_blo(a, b, m[1] + m[3], ahi, blo, bhi) ELSE <<>>)

\* the queue loop of get_matching_blocks followed by matching_blocks.sort():
\* the blocks left of a match precede it and those right of it follow it
RECURSIVE matching_blocks(_, _, _, _, _, _)
matching_blocks(a, b, alo, ahi, blo, bhi) ==
    LET m == find_longest_match(a, b, alo, ahi, blo, bhi)
    IN IF m[3] = 0 THEN <<>>
       ELSE (IF alo < m[1] /\ blo < m[2]
             THEN matching_blocks(a, b, alo, m[1], blo, m[2]) ELSE <<>>)
            \o <<m>> \o
            (IF m[1] + m[3] < ahi /\ m[2] + m[3] < bhi
             THEN matching_blocks(a, b, m[1] + m[3], ahi, m[2] + m[3], bhi) ELSE <<>>)

\* the collapsing loop of get_matching_blocks: adjacent blocks are merged
RECURSIVE non_adjacent(_, _)
non_adjacent(blocks, cur) ==
    IF blocks = <<>>
    THEN IF cur[3] > 0 THEN <<cur>> ELSE <<>>
    ELSE LET nxt == Head(blocks)
         IN IF cur[1] + cur[3] = nxt[1] /\ cur[2] + cur[3] = nxt[2]
            THEN non_adjacent(Tail(blocks), <<cur[1], cur[2], cur[3] + nxt[3]>>)
            ELSE (IF cur[3] > 0 THEN <<cur>> ELSE <<>>)
                 \o non_adjacent(Tail(blocks), nxt)

\* SequenceMatcher.get_matching_blocks(), with the closing (la, lb, 0) block
get_matching_blocks(a, b) ==
    non_adjacent(matching_blocks(a, b, 0, Len(a), 0, Len(b)), <<0, 0, 0>>)
        \o << <<Len(a), Len(b), 0>> >>

\* the loop of get_opcodes over the matching blocks, from position (i, j)
RECURSIVE opcodes_from(_, _, _)
opcodes_from(blocks, i, j) ==
    IF blocks = <<>> THEN <<>>
    ELSE LET ai == Head(blocks)[1]
             bj == Head(blocks)[2]
             size == Head(blocks)[3]
             tag == IF i < ai /\ j < bj THEN "replace"
                    ELSE IF i < ai THEN "delete"
                    ELSE IF j < bj THEN "insert"
                    ELSE ""
         IN (IF tag # "" THEN << <<tag, i, ai, j, bj>> >> ELSE <<>>)
            \o (IF size > 0 THEN << <<"equal", ai, ai + size, bj, bj + size>> >> ELSE <<>>)
            \o opcodes_from(Tail(blocks), ai + size, bj + size)

\* SequenceMatcher.get_opcodes()
get_opcodes(a, b) == opcodes_from(get_matching_blocks(a, b), 0, 0)

(***************************************************************************)
(* RequestComparator.align_requests_like_vscode                            *)
(***************************************************************************)
\* paths1 = [req.path for req in requests1]
paths_of(requests) == [i \in 1..Len(requests) |-> requests[i].path]

\* variant: a replace run is zipped without padding the shorter side
pairs_of_opcode_zip_shortest(op) ==
    LET tag == op[1]
        i1 == op[2]
        i2 == op[3]
        j1 == op[4]
        j2 == op[5]
        len1 == i2 - i1
        len2 == j2 - j1
        min_len == IF len1 <= len2 THEN len1 ELSE len2
    IN IF tag = "equal" THEN [k \in 1..len1 |-> <<i1 + k - 1, j1 + k - 1>>]
       ELSE IF tag = "delete" THEN [k \in 1..len1 |-> <<i1 + k - 1, None>>]
       ELSE IF tag = "insert" THEN [k \in 1..len2 |-> <<None, j1 + k - 1>>]
       ELSE IF tag = "replace"
            THEN [k \in 1..min_len |-> <<i1 + k - 1, j1 + k - 1>>]
       ELSE <<>>

\* variant: a replace run counts capture 1's records down from the end of
\* the run (i2 - k for i1 + k)
pairs_of_opcode_replace_reversed(op) ==
    LET tag == op[1]
        i1 == op[2]
        i2 == op[3]
        j1 == op[4]
        j2 == op[5]
        len1 == i2 - i1
        len2 == j2 - j1
    IN IF tag = "equal" THEN [k \in 1..len1 |-> <<i1 + k - 1, j1 + k - 1>>]
       ELSE IF tag = "delete" THEN [k \in 1..len1 |-> <<i1 + k - 1, None>>]
       ELSE IF tag = "insert" THEN [k \in 1..len2 |-> <<None, j1 + k - 1>>]
       ELSE IF tag = "replace"
            THEN [k \in 1..Max(len1, len2) |->
                    <<IF k - 1 < len1 THEN i2 - k ELSE None,
                      IF k - 1 < len2 THEN j1 + k - 1 ELSE None>>]
       ELSE <<>>

\* variant: an equal run pairs every record of capture 1 with the first
\* record of the run in capture 2
pairs_of_opcode_equal_fixed_j(op) ==
    LET tag == op[1]
        i1 == op[2]
        i2 == op[3]
        j1 == op[4]
        j2 == op[5]
        len1 == i2 - i1
        len2 == j2 - j1
    IN IF tag = "equal" THEN [k \in 1..len1 |-> <<i1 + k - 1, j1>>]
       ELSE IF tag = "delete" THEN [k \in 1..len1 |-> <<i1 + k - 1, None>>]
       ELSE IF tag = "insert" THEN [k \in 1..len2 |-> <<None, j1 + k - 1>>]
       ELSE IF tag = "replace"
            THEN [k \in 1..Max(len1, len2) |->
                    <<IF k - 1 < len1 THEN i1 + k - 1 ELSE None,
                      IF k - 1 < len2 THEN j1 + k - 1 ELSE None>>]
       ELSE <<>>

\* the pairs appended for one opcode
pairs_of_opcode(op) ==
    LET tag == op[1]
        i1 == op[2]
        i2 == op[3]
        j1 == op[4]
        j2 == op[5]
        len1 == i2 - i1
        len2 == j2 - j1
    IN IF tag = "equal" THEN [k \in 1..len1 |-> <<i1 + k - 1, j1 + k - 1>>]
       ELSE IF tag = "delete" THEN [k \in 1..len1 |-> <<i1 + k - 1, None>>]
       ELSE IF tag = "insert" THEN [k \in 1..len2 |-> <<None, j1 + k - 1>>]
       ELSE IF tag = "replace"
            THEN [k \in 1..Max(len1, len2) |->
                    <<IF k - 1 < len1 THEN i1 + k - 1 ELSE None,
                      IF k - 1 < len2 THEN j1 + k - 1 ELSE None>>]
       ELSE <<>>

\* the loop over opcodes that builds aligned_pairs
RECURSIVE pairs_of_opcodes(_)
pairs_of_opcodes(ops) ==
    IF ops = <<>> THEN <<>>
    ELSE pairs_of_opcode(Head(ops)) \o pairs_of_opcodes(Tail(ops))

align_requests_like_vscode(rs1, rs2) ==
    pairs_of_opcodes(get_opcodes(paths_of(rs1), paths_of(rs2)))

\* a capture whose records have the given paths
Capture(ps) ==
    [i \in 1..Len(ps) |->
        HarRequest("GET", ps[i], EmptyDict, EmptyDict, NoBody, ResponsePool[1], i - 1)]

PathSequences == UNION {[1..n -> Paths] : n \in 0..MaxLen}

InitAlign ==
    /\ pc = "align"
    /\ GuiIdle
    /\ \E ps1 \in PathSequences, ps2 \in PathSequences :
          /\ requests1 = Capture(ps1)
          /\ requests2 = Capture(ps2)
    /\ opcodes = <<>>
    /\ aligned_pairs = <<>>
    /\ CompareIdle
    /\ FormatIdle
    /\ ParseIdle
    /\ TabIdle

\* one call align_requests_like_vscode(requests1, requests2)
Align ==
    /\ pc = "align"
    /\ opcodes' = get_opcodes(paths_of(requests1), paths_of(requests2))
    /\ aligned_pairs' = align_requests_like_vscode(requests1, requests2)
    /\ pc' = "aligned"
    /\ UNCHANGED <<requests1, requests2>>
    /\ UNCHANGED <<compareVars, formatVars, parseVars, tabVars, guiVars>>

NextAlign == Align

SpecAlign == InitAlign /\ [][NextAlign]_vars

(***************************************************************************)
(* Texts and the json module, as used by JsonFormatter and by the keys-only*)
(* highlighting.  The payloads of the model are written with objects,      *)
(* strings without escapes and unsigned integers without the digit 0; the  *)
(* other JSON forms (arrays, literals, fractions, escapes) do not occur in *)
(* them.                                                                   *)
(***************************************************************************)
\* the literal "Отсутствует" returned by format_json_string
Otsutstvuet == <<"Otsutstvuet">>

\* the characters matched by the WHITESPACE pattern of json.decoder
Whitespace == {" ", "\t", "\n", "\r"}
Digits == {"1", "2", "3", "4", "5", "6", "7", "8", "9"}

\* ord(c) for the characters of the payloads
CodePoint(c) ==
    CASE c = "\t" -> 9 [] c = "\n" -> 10 [] c = "\r" -> 13 [] c = " " -> 32
      [] c = "\"" -> 34 [] c = "," -> 44 [] c = "1" -> 49 [] c = "2" -> 50
      [] c = "3" -> 51 [] c = "4" -> 52 [] c = "5" -> 53 [] c = "6" -> 54
      [] c = "7" -> 55 [] c = "8" -> 56 [] c = "9" -> 57 [] c = ":" -> 58
      [] c = "0" -> 48 [] c = "B" -> 66 [] c = "H" -> 72 [] c = "S" -> 83
      [] c = "a" -> 97 [] c = "b" -> 98 [] c = "c" -> 99 [] c = "{" -> 123
      [] c = "}" -> 125 [] OTHER -> 1090

\* s < t for two str values: lexicographic by code point
RECURSIVE str_less(_, _)
str_less(s, t) ==
    IF t = <<>> THEN FALSE
    ELSE IF s = <<>> THEN TRUE
    ELSE IF Head(s) = Head(t) THEN str_less(Tail(s), Tail(t))
    ELSE CodePoint(Head(s)) < CodePoint(Head(t))

\* sorted(keys)
RECURSIVE sorted(_)
sorted(keys) ==
    IF keys = {} THEN <<>>
    ELSE LET least == CHOOSE k \in keys : \A h \in keys : h = k \/ str_less(k, h)
         IN <<least>> \o sorted(keys \ {least})

\* not s.strip()
is_blank(s) == \A i \in 1..Len(s) : s[i] \in Whitespace

\* a decoding step that raises JSONDecodeError
DecodeError == <<FALSE, <<>>, 0>>

\* WHITESPACE.match(s, i).end(): the first position from i on that holds no whitespace
RECURSIVE skip_ws(_, _)
skip_ws(s, i) ==
    IF i <= Len(s) /\ s[i] \in Whitespace THEN skip_ws(s, i + 1) ELSE i

\* json.decoder.scanstring from the position after the opening quote (strict:
\* a control character ends the scan with an error)
RECURSIVE scanstring(_, _)
scanstring(s, i) ==
    IF i > Len(s) THEN DecodeError
    ELSE IF s[i] = "\"" THEN <<TRUE, <<>>, i + 1>>
    ELSE IF s[i] \in {"\t", "\n", "\r", "\\"} THEN DecodeError
    ELSE LET r == scanstring(s, i + 1)
         IN IF r[1] THEN <<TRUE, <<s[i]>> \o r[2], r[3]>> ELSE DecodeError

\* the end of the digits matched by NUMBER_RE from position i
RECURSIVE scan_digits(_, _)
scan_digits(s, i) ==
    IF i <= Len(s) /\ s[i] \in Digits THEN scan_digits(s, i + 1) ELSE i

\* dict(pairs): a later pair replaces an earlier one with the same key
RECURSIVE dict_of(_)
dict_of(pairs) ==
    IF pairs = <<>> THEN EmptyDict
    ELSE LET d == dict_of(SubSeq(pairs, 1, Len(pairs) - 1))
             last == pairs[Len(pairs)]
         IN [k \in DOMAIN d \cup {last[1]} |-> IF k = last[1] THEN last[2] ELSE d[k]]

\* json.scanner scan_once and json.decoder.JSONObject; a value is
\* <<"str", chars>>, <<"int", digits>> or <<"obj", dict>>, the result is
\* <<TRUE, value, end>> or DecodeError
RECURSIVE scan_once(_, _), JSONObject(_, _, _)
scan_once(s, i) ==
    IF i > Len(s) THEN DecodeError
    ELSE IF s[i] = "\""
         THEN LET r == scanstring(s, i + 1)
              IN IF r[1] THEN <<TRUE, <<"str", r[2]>>, r[3]>> ELSE DecodeError
    ELSE IF s[i] = "{"
         THEN LET n == skip_ws(s, i + 1)
              IN IF n <= Len(s) /\ s[n] = "}"
                 THEN <<TRUE, <<"obj", EmptyDict>>, n + 1>>
                 ELSE JSONObject(s, n, <<>>)
    ELSE IF s[i] \in Digits
         THEN <<TRUE, <<"int", SubSeq(s, i, scan_digits(s, i) - 1)>>, scan_digits(s, i)>>
    ELSE DecodeError

\* the member loop of JSONObject: s[i] must open a key
JSONObject(s, i, pairs) ==
    IF i > Len(s) \/ s[i] # "\"" THEN DecodeError
    ELSE LET key == scanstring(s, i + 1)
         IN IF ~key[1] THEN DecodeError
            ELSE LET colon == skip_ws(s, key[3])
                 IN IF colon > Len(s) \/ s[colon] # ":" THEN DecodeError
                    ELSE LET value == scan_once(s, skip_ws(s, colon + 1))
                         IN IF ~value[1] THEN DecodeError
                            ELSE LET end == skip_ws(s, value[3])
                                     more == Append(pairs, <<key[2], value[2]>>)
                                 IN IF end > Len(s) THEN DecodeError
                                    ELSE IF s[end] = "}"
                                         THEN <<TRUE, <<"obj", dict_of(more)>>, end + 1>>
                                    ELSE IF s[end] = ","
                                         THEN JSONObject(s, skip_ws(s, end + 1), more)
                                    ELSE DecodeError

\* json.loads(s): one value between optional whitespace, nothing after it
json_loads(s) ==
    LET r == scan_once(s, skip_ws(s, 1))
    IN IF r[1] /\ skip_ws(s, r[3]) = Len(s) + 1 THEN r ELSE DecodeError

\* '\n' + ' ' * (2 * level)
newline_indent(level) == <<"\n">> \o [i \in 1..(2 * level) |-> " "]

\* json.dumps(value, indent=2, ensure_ascii=False, sort_keys=True) at a
\* nesting level
RECURSIVE json_dumps(_, _), dumps_items(_, _, _, _)
\* variant: a str is written without its quotes
json_dumps_bare_strings(value, level) ==
    IF value[1] \in {"str", "int"} THEN value[2]
    ELSE IF DOMAIN value[2] = {} THEN <<"{", "}">>
    ELSE <<"{">> \o dumps_items(value[2], sorted(DOMAIN value[2]), 1, level + 1)
             \o newline_indent(level) \o <<"}">>
json_dumps(value, level) ==
    IF value[1] = "str" THEN <<"\"">> \o value[2] \o <<"\"">>
    ELSE IF value[1] = "int" THEN value[2]
    ELSE IF DOMAIN value[2] = {} THEN <<"{", "}">>
    ELSE <<"{">> \o dumps_items(value[2], sorted(DOMAIN value[2]), 1, level + 1)
             \o newline_indent(level) \o <<"}">>

\* the items of a dict from the n-th sorted key on
dumps_items(d, keys, n, level) ==
    IF n > Len(keys) THEN <<>>
    ELSE (IF n = 1 THEN <<>> ELSE <<",">>) \o newline_indent(level)
         \o <<"\"">> \o keys[n] \o <<"\"", ":", " ">>
         \o json_dumps(d[keys[n]], level)
         \o dumps_items(d, keys, n + 1, level)

(***************************************************************************)
(* JsonFormatter.format_json_string                                        *)
(***************************************************************************)
\* variant: only an absent payload gets the placeholder, a blank one is
\* handed to json.loads
format_json_string_blank_verbatim(js) ==
    IF js = NoBody THEN Otsutstvuet
    ELSE LET parsed == json_loads(js[1])
         IN IF parsed[1] THEN json_dumps(parsed[2], 0) ELSE js[1]
format_json_string(js) ==
    IF js = NoBody \/ js[1] = EmptyStr \/ is_blank(js[1]) THEN Otsutstvuet
    ELSE LET parsed == json_loads(js[1])
         IN IF parsed[1] THEN json_dumps(parsed[2], 0) ELSE js[1]

(***************************************************************************)
(* The payloads given to the formatter                                     *)
(***************************************************************************)
MaxKeys == 2           \* most members of an object of a payload

quoted(s) == <<"\"">> \o s \o <<"\"">>
PayloadKeys == {<<"a">>, <<"b">>}
LeafTexts ==
    {<<"1">>, <<"1", "2">>, quoted(<<"a">>), quoted(<<>>), quoted(<<" ", "1">>)}
InnerTexts ==
    LeafTexts \cup {<<"{", "}">>,
                    <<"{">> \o quoted(<<"b">>) \o <<":", "1", ",">>
                            \o quoted(<<"a">>) \o <<":", "2", "}">>}
MemberTexts == {quoted(k) \o <<":">> \o v : k \in PayloadKeys, v \in InnerTexts}

\* the members joined by commas
RECURSIVE joined(_)
joined(members) ==
    IF members = <<>> THEN <<>>
    ELSE IF Len(members) = 1 THEN members[1]
    ELSE members[1] \o <<",">> \o joined(Tail(members))

ObjectTexts ==
    {<<"{">> \o joined(ms) \o <<"}">> :
        ms \in UNION {[1..n -> MemberTexts] : n \in 0..MaxKeys}}
JsonTexts == LeafTexts \cup ObjectTexts

\* JSON texts, the same between whitespace, the same cut short, blank texts
\* and texts that are no JSON
PayloadTexts ==
    JsonTexts
    \cup {<<" ">> \o t \o <<"\n">> : t \in JsonTexts}
    \cup {SubSeq(t, 1, Len(t) - 1) : t \in JsonTexts}
    \cup {<<"{", " ", "\"", "a", "\"", " ", ":", "\n", "1", " ", "}">>,
          <<"{", "\"", "a", "\"", ":", "1", ",", "}">>,
          <<" ">>, <<"\n", " ">>, <<"a">>, <<"1", " ", "1">>, Otsutstvuet}
Payloads == {NoBody} \cup {<<t>> : t \in PayloadTexts}

InitFormat ==
    /\ pc = "format"
    /\ GuiIdle
    /\ json_str \in Payloads
    /\ formatted = EmptyStr
    /\ reformatted = EmptyStr
    /\ CompareIdle
    /\ AlignIdle
    /\ ParseIdle
    /\ TabIdle

\* one call format_json_string(json_str)
Format ==
    /\ pc = "format"
    /\ formatted' = format_json_string(json_str)
    /\ pc' = "formatted"
    /\ UNCHANGED <<json_str, reformatted>>
    /\ UNCHANGED <<compareVars, alignVars, parseVars, tabVars, guiVars>>

\* the result is formatted once more
FormatAgain ==
    /\ pc = "formatted"
    /\ reformatted' = format_json_string(<<formatted>>)
    /\ pc' = "reformatted"
    /\ UNCHANGED <<json_str, formatted>>
    /\ UNCHANGED <<compareVars, alignVars, parseVars, tabVars, guiVars>>

NextFormat == Format \/ FormatAgain

SpecFormat == InitFormat /\ [][NextFormat]_vars

(***************************************************************************)
(* urllib.parse.urlparse and parse_qs, as used by parse_har_file.  The     *)
(* urls of the model are written without ';', '+', '%', '[' and without    *)
(* control characters.                                                     *)
(***************************************************************************)
Letters == {"a", "b", "h", "i", "j", "p", "t"}
SchemeChars == Letters \cup Digits \cup {"+", "-", "."}

\* the first position from i on whose character is in cs, Len(s) + 1 if none
RECURSIVE find(_, _, _)
find(s, cs, i) ==
    IF i > Len(s) \/ s[i] \in cs THEN i ELSE find(s, cs, i + 1)

\* s[i:]
from(s, i) == IF i > Len(s) THEN <<>> ELSE SubSeq(s, i, Len(s))
\* s[:i]
upto(s, i) == IF i < 1 THEN <<>> ELSE SubSeq(s, 1, i)

\* s.split(c)
RECURSIVE split(_, _)
split(s, c) ==
    LET i == find(s, {c}, 1)
    IN IF i > Len(s) THEN <<s>> ELSE <<upto(s, i - 1)>> \o split(from(s, i + 1), c)

\* urlparse(url): the components read by parse_har_file
urlparse(url) ==
    LET colon == find(url, {":"}, 1)
        has_scheme == /\ colon <= Len(url) /\ colon > 1
                      /\ url[1] \in Letters
                      /\ \A j \in 1..(colon - 1) : url[j] \in SchemeChars
        rest == IF has_scheme THEN from(url, colon + 1) ELSE url
        has_netloc == Len(rest) >= 2 /\ rest[1] = "/" /\ rest[2] = "/"
        after == IF has_netloc THEN from(rest, find(rest, {"/", "?", "#"}, 3)) ELSE rest
        no_fragment == upto(after, find(after, {"#"}, 1) - 1)
        mark == find(no_fragment, {"?"}, 1)
    IN [path |-> upto(no_fragment, mark - 1), query |-> from(no_fragment, mark + 1)]

\* parse_qsl(qs): the (name, value) pairs with a non-blank value, in order
RECURSIVE parse_qsl(_)
parse_qsl(fields) ==
    IF fields = <<>> THEN <<>>
    ELSE LET nv == Head(fields)
             eq == find(nv, {"="}, 1)
         IN (IF nv # <<>> /\ eq <= Len(nv) /\ from(nv, eq + 1) # <<>>
             THEN << <<upto(nv, eq - 1), from(nv, eq + 1)>> >>
             ELSE <<>>)
            \o parse_qsl(Tail(fields))

\* the values of the pairs named name, in order
RECURSIVE values_of(_, _)
values_of(pairs, name) ==
    IF pairs = <<>> THEN <<>>
    ELSE (IF Head(pairs)[1] = name THEN <<Head(pairs)[2]>> ELSE <<>>)
         \o values_of(Tail(pairs), name)

\* parse_qs(qs)
parse_qs(qs) ==
    LET pairs == parse_qsl(split(qs, "&"))
    IN [name \in {pairs[i][1] : i \in 1..Len(pairs)} |-> values_of(pairs, name)]

(***************************************************************************)
(* HarParser.parse_har_file.  The content of a readable JSON file is given *)
(* as the value json.load returns: <<"obj", dict>>, <<"list", items>>,     *)
(* <<"str", s>>, <<"num", n>> or <<"null">>.  In the documents of the      *)
(* model a url, a method, a header name or value, a payload text and a     *)
(* status have the right type whenever they are present; what varies is    *)
(* which keys are present and whether an object stands where one is read.  *)
(***************************************************************************)
Obj(d) == <<"obj", d>>
List(items) == <<"list", items>>
Str(s) == <<"str", s>>
Num(n) == <<"num", n>>
Null == <<"null">>
is_dict(v) == v[1] = "obj"

\* d.get(key, default) on the dict of an object
get(v, key, default) == IF key \in DOMAIN v[2] THEN v[2][key] ELSE default

\* the loop headers[header.get('name', '')] = header.get('value', ''),
\* variant: a name already in the mapping keeps its value
RECURSIVE fold_headers_first_wins(_), fold_headers(_)
fold_headers_first_wins(hs) ==
    IF hs = <<>> THEN EmptyDict
    ELSE LET rest == fold_headers_first_wins(SubSeq(hs, 1, Len(hs) - 1))
             name == get(hs[Len(hs)], "name", Str(""))[2]
             value == get(hs[Len(hs)], "value", Str(""))[2]
         IN [n \in DOMAIN rest \cup {name} |-> IF n \in DOMAIN rest THEN rest[n] ELSE value]
\* the loop headers[header.get('name', '')] = header.get('value', '')
fold_headers(hs) ==
    IF hs = <<>> THEN EmptyDict
    ELSE LET rest == fold_headers(SubSeq(hs, 1, Len(hs) - 1))
             name == get(hs[Len(hs)], "name", Str(""))[2]
             value == get(hs[Len(hs)], "value", Str(""))[2]
         IN [n \in DOMAIN rest \cup {name} |-> IF n = name THEN value ELSE rest[n]]

\* post_data / response_body: None unless the key is there, then its text
body_of(data, key) ==
    IF key \in DOMAIN data[2] THEN <<get(data[2][key], "text", Str(EmptyStr))[2]>>
    ELSE NoBody

\* what enumerate(entries) iterates over: the items of a list, the keys of a
\* dict, the characters of a str
items_of(entries) ==
    IF entries[1] = "list" THEN entries[2]
    ELSE IF entries[1] = "obj"
         THEN LET keys == DOMAIN entries[2]
              IN IF keys = {} THEN <<>> ELSE <<Str(CHOOSE k \in keys : TRUE)>>
    ELSE [i \in 1..Len(entries[2]) |-> Str(<<entries[2][i]>>)]

\* a header list whose items are all objects
headers_ok(data) ==
    LET hs == get(data, "headers", List(<<>>))
    IN hs[1] = "list" /\ \A i \in 1..Len(hs[2]) : is_dict(hs[2][i])

\* one turn of the loop completes without an exception
entry_ok(entry) ==
    /\ is_dict(entry)
    /\ is_dict(get(entry, "request", Obj(EmptyDict)))
    /\ is_dict(get(entry, "response", Obj(EmptyDict)))
    /\ LET request_data == get(entry, "request", Obj(EmptyDict))
           response_data == get(entry, "response", Obj(EmptyDict))
       IN /\ headers_ok(request_data)
          /\ headers_ok(response_data)
          /\ "postData" \in DOMAIN request_data[2] => is_dict(request_data[2]["postData"])
          /\ "content" \in DOMAIN response_data[2] => is_dict(response_data[2]["content"])

\* the HarRequest built from one entry, variant: path is the path of the
\* url without its query string
har_request_bare_path(entry, index) ==
    LET request_data == get(entry, "request", Obj(EmptyDict))
        response_data == get(entry, "response", Obj(EmptyDict))
        url == get(request_data, "url", Str(EmptyStr))[2]
        parsed_url == urlparse(url)
        path == parsed_url.path
        query_params == IF parsed_url.query # <<>> THEN parse_qs(parsed_url.query)
                        ELSE EmptyDict
        response ==
            [response_status |-> get(response_data, "status", Num(0))[2],
             response_headers |-> fold_headers(get(response_data, "headers", List(<<>>))[2]),
             response_body |-> body_of(response_data, "content")]
    IN [HarRequest(get(request_data, "method", Str(""))[2], path,
                   fold_headers(get(request_data, "headers", List(<<>>))[2]),
                   query_params, body_of(request_data, "postData"), response, index)
        EXCEPT !.url = url]
\* the HarRequest built from one entry
har_request(entry, index) ==
    LET request_data == get(entry, "request", Obj(EmptyDict))
        response_data == get(entry, "response", Obj(EmptyDict))
        url == get(request_data, "url", Str(EmptyStr))[2]
        parsed_url == urlparse(url)
        path == IF parsed_url.query # <<>>
                THEN parsed_url.path \o <<"?">> \o parsed_url.query
                ELSE parsed_url.path
        query_params == IF parsed_url.query # <<>> THEN parse_qs(parsed_url.query)
                        ELSE EmptyDict
        response ==
            [response_status |-> get(response_data, "status", Num(0))[2],
             response_headers |-> fold_headers(get(response_data, "headers", List(<<>>))[2]),
             response_body |-> body_of(response_data, "content")]
    IN [HarRequest(get(request_data, "method", Str(""))[2], path,
                   fold_headers(get(request_data, "headers", List(<<>>))[2]),
                   query_params, body_of(request_data, "postData"), response, index)
        EXCEPT !.url = url]

\* the two outcomes of a call
Returned(requests) == [raised |-> FALSE, requests |-> requests]
Raised(path) == [raised |-> TRUE, file_path |-> path]

\* variant: a missing 'log' or 'entries' is a KeyError
parse_har_file_required_keys(path, file) ==
    IF file[1] # "json" THEN Raised(path)
    ELSE LET har_data == file[2]
         IN IF ~is_dict(har_data) \/ "log" \notin DOMAIN har_data[2] THEN Raised(path)
            ELSE IF ~is_dict(har_data[2]["log"])
                    \/ "entries" \notin DOMAIN har_data[2]["log"][2] THEN Raised(path)
            ELSE LET entries == har_data[2]["log"][2]["entries"]
                 IN IF entries[1] \in {"num", "null"} THEN Raised(path)
                    ELSE LET items == items_of(entries)
                         IN IF \E k \in 1..Len(items) : ~entry_ok(items[k])
                            THEN Raised(path)
                            ELSE Returned([k \in 1..Len(items) |->
                                              har_request(items[k], k - 1)])
\* variant: an entry that cannot be read is left out
parse_har_file_skips_entries(path, file) ==
    IF file[1] # "json" THEN Raised(path)
    ELSE LET har_data == file[2]
         IN IF ~is_dict(har_data) THEN Raised(path)
            ELSE IF ~is_dict(get(har_data, "log", Obj(EmptyDict))) THEN Raised(path)
            ELSE LET entries == get(get(har_data, "log", Obj(EmptyDict)), "entries", List(<<>>))
                 IN IF entries[1] \in {"num", "null"} THEN Raised(path)
                    ELSE LET items == items_of(entries)
                             good == SelectSeq(items, entry_ok)
                         IN Returned([k \in 1..Len(good) |-> har_request(good[k], k - 1)])
\* parse_har_file(file_path) when file is what is stored under file_path
parse_har_file(path, file) ==
    IF file[1] # "json" THEN Raised(path)
    ELSE LET har_data == file[2]
         IN IF ~is_dict(har_data) THEN Raised(path)
            ELSE IF ~is_dict(get(har_data, "log", Obj(EmptyDict))) THEN Raised(path)
            ELSE LET entries == get(get(har_data, "log", Obj(EmptyDict)), "entries", List(<<>>))
                 IN IF entries[1] \in {"num", "null"} THEN Raised(path)
                    ELSE LET items == items_of(entries)
                         IN IF \E k \in 1..Len(items) : ~entry_ok(items[k])
                            THEN Raised(path)
                            ELSE Returned([k \in 1..Len(items) |->
                                              har_request(items[k], k - 1)])

(***************************************************************************)
(* The capture documents given to the parser                               *)
(***************************************************************************)
NumEntries == 6        \* distinct entries of the captures of several entries
MaxEntries == 2        \* most entries of a capture
MaxHeaders == 2        \* longest header list of an entry

Header(name, value) == Obj(("name" :> Str(name)) @@ ("value" :> Str(value)))
Text(t) == Obj("text" :> Str(t))
Url(t) == Str(<<"h", "t", "t", "p", ":", "/", "/", "h">> \o t)

EntryPool ==
    << Obj(("request" :> Obj(("method" :> Str("GET"))
                             @@ ("url" :> Url(<<"/", "a", "?", "i", "=", "1", "&", "j", "=", "2", "&", "i", "=", "2">>))
                             @@ ("headers" :> List(<<Header("Accept", "1"), Header("Host", "1"),
                                                     Header("Accept", "2")>>))
                             @@ ("postData" :> Text(<<"{", "}">>))))
           @@ ("response" :> Obj(("status" :> Num(200))
                                 @@ ("headers" :> List(<<Header("Server", "x")>>))
                                 @@ ("content" :> Text(<<"1">>))))),
       Obj(EmptyDict),
       Str(<<"a">>),
       Obj(("request" :> Obj(("method" :> Str("POST"))
                             @@ ("url" :> Str(<<"/", "b", "?", "i", "=", "&", "j", "#", "a">>))
                             @@ ("headers" :> List(<<Obj("value" :> Str("1")),
                                                     Obj("name" :> Str("Host"))>>))
                             @@ ("postData" :> Obj(EmptyDict))))
           @@ ("response" :> Obj(("status" :> Num(404))
                                 @@ ("content" :> Obj(EmptyDict))))),
       Obj(("request" :> Obj(("url" :> Url(<<"/", "b">>)) @@ ("postData" :> Null)))),
       Obj(("request" :> Obj(("url" :> Url(<<>>))
                             @@ ("headers" :> List(<<Header("Host", "1"), Null>>))))),
       Obj(("request" :> Null)) >>
Entries == {EntryPool[i] : i \in 1..NumEntries}

\* the header lists of up to MaxHeaders headers
HeaderNames == {"Accept", "Host"}
HeaderValues == {"1", "2"}
HeaderLists ==
    UNION {[1..n -> {Header(name, value) : name \in HeaderNames, value \in HeaderValues}] :
              n \in 0..MaxHeaders}
HeaderEntries ==
    {Obj(("request" :> Obj("headers" :> List(hs)))
         @@ ("response" :> Obj("headers" :> List(rs)))) :
        hs \in HeaderLists, rs \in HeaderLists}

Capture_of(entries) == Obj("log" :> Obj("entries" :> entries))
HarFiles ==
    {<<"unreadable">>, <<"not json">>}
    \cup {<<"json", har_data>> : har_data \in
            {Null, List(<<>>), Obj(EmptyDict), Obj("version" :> Num(1)),
             Obj("log" :> Null), Obj("log" :> Obj(EmptyDict)),
             Obj("log" :> Obj("version" :> Num(1))),
             Capture_of(Null), Capture_of(Obj(EmptyDict)), Capture_of(Obj("a" :> Num(1))),
             Capture_of(Str(<<>>)), Capture_of(Str(<<"a">>))}
            \cup {Capture_of(List(es)) : es \in UNION {[1..n -> Entries] : n \in 0..MaxEntries}}
            \cup {Capture_of(List(<<e>>)) : e \in HeaderEntries}
            \cup {Capture_of(List(<<e1, e2>>)) : e1, e2 \in
                    {Obj("request" :> Obj(("url" :> Url(u)) @@ ("headers" :> List(hs)))) :
                        u \in {<<"/", "a">>, <<"/", "a", "?", "i", "=", "1">>,
                               <<"/", "a", "?", "i", "=", "2">>,
                               <<"/", "a", "?", "i", "=", "1", "#", "a">>},
                        hs \in {<<>>, <<Header("Accept", "1")>>, <<Header("Accept", "2")>>,
                                <<Header("Host", "1")>>}}}}
FilePaths == {"to compare/1.har", "to compare/2.har"}

InitParse ==
    /\ pc = "parse"
    /\ GuiIdle
    /\ file_path \in FilePaths
    /\ har_file \in HarFiles
    /\ parse_result = <<>>
    /\ CompareIdle
    /\ AlignIdle
    /\ FormatIdle
    /\ TabIdle

\* one call parse_har_file(file_path)
Parse ==
    /\ pc = "parse"
    /\ parse_result' = parse_har_file(file_path, har_file)
    /\ pc' = "parsed"
    /\ UNCHANGED <<file_path, har_file>>
    /\ UNCHANGED <<compareVars, alignVars, formatVars, tabVars, guiVars>>

NextParse == Parse

SpecParse == InitParse /\ [][NextParse]_vars

(***************************************************************************)
(* The detail view: create_body_comparison_tab, create_response_-          *)
(* comparison_tab and the highlighting they end with.  The detail view is  *)
(* opened for two selected records only, so req1 and req2 are records.  A  *)
(* Text widget is its content and, for each line of the content, the set   *)
(* of tags added over that line by tag_add.                                *)
(***************************************************************************)
\* the literals "Отсутствуют" and "Тело запроса отсутствует"
Otsutstvuyut == <<"Otsutstvuyut">>
TeloZaprosaOtsutstvuet == <<"Telo zaprosa otsutstvuet">>

\* str(n) for n >= 0
RECURSIVE str_of_int(_)
str_of_int(n) ==
    LET digit == <<"0", "1", "2", "3", "4", "5", "6", "7", "8", "9">>[(n % 10) + 1]
    IN IF n < 10 THEN <<digit>> ELSE str_of_int(n \div 10) \o <<digit>>

\* "\n".join(lines)
RECURSIVE join_lines(_)
join_lines(lines) ==
    IF lines = <<>> THEN <<>>
    ELSE IF Len(lines) = 1 THEN lines[1]
    ELSE lines[1] \o <<"\n">> \o join_lines(Tail(lines))

\* JsonFormatter.format_headers_dict
format_headers_dict(headers_dict) ==
    IF DOMAIN headers_dict = {} THEN Otsutstvuyut
    ELSE LET keys == sorted(DOMAIN headers_dict)
         IN join_lines([n \in 1..Len(keys) |-> keys[n] \o <<":", " ">> \o headers_dict[keys[n]]])

\* the truth value of a body: neither None nor ''
truthy(body) == body # NoBody /\ body[1] # EmptyStr

\* the text shown for a request body
body_text(req) ==
    IF truthy(req.post_data) THEN format_json_string(req.post_data)
    ELSE TeloZaprosaOtsutstvuet

\* the text shown for a response
response_text(req) ==
    <<"S", "t", "a", "t", "u", "s", ":", " ">> \o str_of_int(req.response_status)
    \o <<"\n", "\n", "H", "e", "a", "d", "e", "r", "s", ":", "\n">>
    \o format_headers_dict(req.response_headers)
    \o <<"\n", "\n", "B", "o", "d", "y", ":", "\n">>
    \o (IF truthy(req.response_body) THEN format_json_string(req.response_body)
        ELSE Otsutstvuet)

\* the tags added over a line (0-based) of one side by the loop over opcodes
line_tags(ops, side, line) ==
    {IF ops[k][1] = "equal" THEN "same" ELSE "different" :
        k \in {k \in 1..Len(ops) :
                 /\ \/ ops[k][1] \in {"equal", "replace"}
                    \/ ops[k][1] = "delete" /\ side = 1
                    \/ ops[k][1] = "insert" /\ side = 2
                 /\ IF side = 1 THEN ops[k][2] <= line /\ line < ops[k][3]
                    ELSE ops[k][4] <= line /\ line < ops[k][5]}}

\* variant: the lines of a replace run are tagged 'missing'
highlight_differences_replace_missing(content1, content2) ==
    LET lines1 == split(content1, "\n")
        lines2 == split(content2, "\n")
        ops == get_opcodes(lines1, lines2)
        shown(tags, line, side) ==
            IF \E k \in 1..Len(ops) :
                  /\ ops[k][1] = "replace"
                  /\ IF side = 1 THEN ops[k][2] <= line /\ line < ops[k][3]
                     ELSE ops[k][4] <= line /\ line < ops[k][5]
            THEN {"missing"} ELSE tags
    IN << [n \in 1..Len(lines1) |-> shown(line_tags(ops, 1, n - 1), n - 1, 1)],
          [n \in 1..Len(lines2) |-> shown(line_tags(ops, 2, n - 1), n - 1, 2)] >>
\* highlight_differences: the tags of text1 and of text2
highlight_differences(content1, content2) ==
    LET lines1 == split(content1, "\n")
        lines2 == split(content2, "\n")
        tagged(ops) == << [n \in 1..Len(lines1) |-> line_tags(ops, 1, n - 1)],
                          [n \in 1..Len(lines2) |-> line_tags(ops, 2, n - 1)] >>
    IN tagged(get_opcodes(lines1, lines2))

\* highlight_as_same: 'keys_same' from '1.0' to 'end' in both widgets
highlight_as_same(content1, content2) ==
    << [n \in 1..Len(split(content1, "\n")) |-> {"keys_same"}],
       [n \in 1..Len(split(content2, "\n")) |-> {"keys_same"}] >>

\* json.loads(body) if body else {}
loads_or_empty(body) ==
    IF truthy(body) THEN json_loads(body[1]) ELSE <<TRUE, <<"obj", EmptyDict>>, 0>>

\* the body keys of the response category: set() unless the body is there
\* and parses to a dict
body_keys(body) ==
    IF truthy(body) /\ json_loads(body[1])[1] /\ json_loads(body[1])[2][1] = "obj"
    THEN DOMAIN json_loads(body[1])[2][2]
    ELSE {}

\* variant: a missing body is no dict
highlight_differences_with_mode_missing_body(content1, content2, r1, r2, k, category) ==
    IF k /\ category = "body" /\ truthy(r1.post_data) /\ truthy(r2.post_data)
         /\ json_loads(r1.post_data[1])[1] /\ json_loads(r2.post_data[1])[1]
         /\ json_loads(r1.post_data[1])[2][1] = "obj"
         /\ json_loads(r2.post_data[1])[2][1] = "obj"
         /\ DOMAIN json_loads(r1.post_data[1])[2][2] = DOMAIN json_loads(r2.post_data[1])[2][2]
    THEN highlight_as_same(content1, content2)
    ELSE IF k /\ category = "response"
              /\ r1.response_status = r2.response_status
              /\ DOMAIN r1.response_headers = DOMAIN r2.response_headers
              /\ body_keys(r1.response_body) = body_keys(r2.response_body)
    THEN highlight_as_same(content1, content2)
    ELSE highlight_differences(content1, content2)
\* variant: a response body that is no dict makes the response category
\* fall back to the full comparison
highlight_differences_with_mode_response_fallback(content1, content2, r1, r2, k, category) ==
    IF k /\ category = "body"
         /\ loads_or_empty(r1.post_data)[1] /\ loads_or_empty(r2.post_data)[1]
         /\ loads_or_empty(r1.post_data)[2][1] = "obj"
         /\ loads_or_empty(r2.post_data)[2][1] = "obj"
         /\ DOMAIN loads_or_empty(r1.post_data)[2][2] = DOMAIN loads_or_empty(r2.post_data)[2][2]
    THEN highlight_as_same(content1, content2)
    ELSE IF k /\ category = "response"
              /\ \A body \in {r1.response_body, r2.response_body} :
                    /\ truthy(body) /\ json_loads(body[1])[1]
                    /\ json_loads(body[1])[2][1] = "obj"
              /\ r1.response_status = r2.response_status
              /\ DOMAIN r1.response_headers = DOMAIN r2.response_headers
              /\ body_keys(r1.response_body) = body_keys(r2.response_body)
    THEN highlight_as_same(content1, content2)
    ELSE highlight_differences(content1, content2)
\* highlight_differences_with_mode for the categories 'body' and 'response'
highlight_differences_with_mode(content1, content2, r1, r2, k, category) ==
    LET mode(full, keys_same) ==
            IF ~k THEN full
            ELSE IF category = "body"
            THEN LET branch(json1, json2) ==
                         IF ~json1[1] \/ ~json2[1] THEN full
                         ELSE IF json1[2][1] = "obj" /\ json2[2][1] = "obj"
                              THEN IF DOMAIN json1[2][2] = DOMAIN json2[2][2]
                                   THEN keys_same
                                   ELSE full
                         ELSE full
                 IN branch(loads_or_empty(r1.post_data), loads_or_empty(r2.post_data))
            ELSE IF /\ r1.response_status = r2.response_status
                    /\ DOMAIN r1.response_headers = DOMAIN r2.response_headers
                    /\ body_keys(r1.response_body) = body_keys(r2.response_body)
                 THEN keys_same
                 ELSE full
    IN mode(highlight_differences(content1, content2), highlight_as_same(content1, content2))

(***************************************************************************)
(* The records shown in the detail view                                    *)
(***************************************************************************)
NumTabBodies == 8      \* distinct payload texts of the records shown
NumTabHeaders == 3     \* distinct response-header mappings of the records shown

TabBodyPool ==
    << <<"{", "}">>,
       <<"{", "\"", "a", "\"", ":", "1", "}">>,
       <<"{", "\"", "a", "\"", ":", "2", ",", "\"", "b", "\"", ":", "1", "}">>,
       <<"{", "\"", "b", "\"", ":", "1", ",", "\"", "a", "\"", ":", "1", "}">>,
       <<"1">>,
       <<"{", "\"", "a", "\"">>,
       <<"a", "\n", "b">>,
       <<"a">>,
       <<"{", "\"", "b", "\"", ":", "{", "\"", "a", "\"", ":", "1", "}", "}">> >>
TabBodies == {NoBody, <<EmptyStr>>} \cup {<<TabBodyPool[i]>> : i \in 1..NumTabBodies}

TabHeaderPool ==
    << EmptyDict,
       (<<"a">> :> <<"1">>),
       (<<"a">> :> <<"2">>) @@ (<<"b">> :> <<"1">>),
       (<<"b">> :> <<"2">>) >>
TabHeaders == {TabHeaderPool[i] : i \in 1..NumTabHeaders}
TabStatuses == {200, 404}

\* records that differ in the request body, records that differ in the response
TabRecords ==
    {HarRequest("GET", "/a", EmptyDict, EmptyDict, body, ResponsePool[1], 0) :
        body \in TabBodies}
    \cup {HarRequest("GET", "/a", EmptyDict, EmptyDict, NoBody,
                     [response_status |-> status, response_headers |-> headers,
                      response_body |-> body], 0) :
            status \in TabStatuses, headers \in TabHeaders, body \in TabBodies}

InitTab ==
    /\ pc = "detail"
    /\ GuiIdle
    /\ req1 \in TabRecords
    /\ req2 \in TabRecords
    /\ keys_only = FALSE
    /\ comparison_result = "none"
    /\ TabIdle
    /\ AlignIdle
    /\ FormatIdle
    /\ ParseIdle

\* create_body_comparison_tab(notebook, req1, req2, keys_only), called by
\* create_detailed_tabs when one of the records has a request body
CreateBodyComparisonTab ==
    /\ pc = "detail"
    /\ truthy(req1.post_data) \/ truthy(req2.post_data)
    /\ \E k \in BOOLEAN :
          \E body1 \in {body_text(req1)}, body2 \in {body_text(req2)} :
             \E tags \in {highlight_differences_with_mode(body1, body2, req1, req2, k,
                                                            "body")} :
                /\ keys_only' = k
                /\ text1' = [content |-> body1, tags |-> tags[1]]
                /\ text2' = [content |-> body2, tags |-> tags[2]]
    /\ content_type' = "body"
    /\ pc' = "shown"
    /\ UNCHANGED <<req1, req2, comparison_result>>
    /\ UNCHANGED <<alignVars, formatVars, parseVars, guiVars>>

\* create_response_comparison_tab(notebook, req1, req2, keys_only)
CreateResponseComparisonTab ==
    /\ pc = "detail"
    /\ \E k \in BOOLEAN :
          \E response1 \in {response_text(req1)}, response2 \in {response_text(req2)} :
             \E tags \in {highlight_differences_with_mode(response1, response2, req1, req2,
                                                            k, "response")} :
                /\ keys_only' = k
                /\ text1' = [content |-> response1, tags |-> tags[1]]
                /\ text2' = [content |-> response2, tags |-> tags[2]]
    /\ content_type' = "response"
    /\ pc' = "shown"
    /\ UNCHANGED <<req1, req2, comparison_result>>
    /\ UNCHANGED <<alignVars, formatVars, parseVars, guiVars>>

NextTab == CreateBodyComparisonTab \/ CreateResponseComparisonTab

SpecTab == InitTab /\ [][NextTab]_vars

(***************************************************************************)
(* HarCompareGUI: the main window.  self is the record of the fields and   *)
(* widgets that the handlers read and write: a Treeview is the sequence of *)
(* its items, an item is its text, its values (kept as strings by Tk) and  *)
(* its tags; an item is referred to by its position, an absent selection   *)
(* is None (item) or NoRequest (record).  The folder 'to compare' holds    *)
(* exactly two .har files, so file1_path and file2_path are the same in    *)
(* every load and are left out.                                            *)
(***************************************************************************)
NoRequest == <<>>
DISABLED == "disabled"
NORMAL == "normal"

\* the label texts "Файлы не загружены", "Загрузка...", "Запросы выровнены
\* один к одному. ..." and "Автоматическое сопоставление выполнено. ..."
FaylyNeZagruzheny == "Fayly ne zagruzheny"
Zagruzka == "Zagruzka..."
ZaprosyVyrovneny == "Zaprosy vyrovneny odin k odnomu"
AvtomaticheskoeSopostavlenie == "Avtomaticheskoe sopostavlenie vypolneno"

\* the fields after __init__ up to the call of load_har_files
Fresh ==
    [requests1 |-> <<>>, requests2 |-> <<>>,
     keys_only_var |-> FALSE, align_requests_var |-> FALSE, sync_scroll_var |-> FALSE,
     selected_request1 |-> NoRequest, selected_request2 |-> NoRequest,
     selected_item1 |-> None, selected_item2 |-> None,
     scrolling_in_progress |-> FALSE,
     tree1 |-> <<>>, tree2 |-> <<>>,
     yscrollcommand1 |-> "scrollbar1.set", yscrollcommand2 |-> "scrollbar2.set",
     sync_scroll_checkbox |-> DISABLED, compare_button |-> DISABLED,
     info_label |-> FaylyNeZagruzheny, comparison_label |-> Zagruzka]

\* setup_sync_scroll
setup_sync_scroll(g) ==
    IF g.sync_scroll_var
    THEN [g EXCEPT !.yscrollcommand1 = "on_tree1_scroll", !.yscrollcommand2 = "on_tree2_scroll"]
    ELSE [g EXCEPT !.yscrollcommand1 = "scrollbar1.set", !.yscrollcommand2 = "scrollbar2.set"]

\* the item inserted for a record
request_item(idx, req, tags) ==
    [text |-> str_of_int(idx),
     values |-> <<req.method, IF req.url # EmptyStr THEN req.url ELSE req.path,
                  str_of_int(req.response_status)>>,
     tags |-> tags]
\* the item inserted on the side that an aligned pair leaves empty
placeholder_item ==
    [text |-> <<"-">>, values |-> <<"", EmptyStr, EmptyStr>>, tags |-> <<"compared_different">>]

\* tag1 / tag2 of an aligned pair, variant: a record without a counterpart
\* gets no colour
pair_tag_absent_plain(g, idx1, idx2) ==
    IF idx1 # None /\ idx2 # None
    THEN LET comparison == compare_requests(g.requests1[idx1 + 1], g.requests2[idx2 + 1],
                                            g.keys_only_var)
         IN IF comparison = "match" THEN <<"compared_match">>
            ELSE IF comparison = "partial" THEN <<"compared_partial">>
            ELSE <<"compared_different">>
    ELSE <<>>
\* tag1 / tag2 of an aligned pair with a record on the side shown
pair_tag(g, idx1, idx2) ==
    IF idx1 # None /\ idx2 # None
    THEN LET comparison == compare_requests(g.requests1[idx1 + 1], g.requests2[idx2 + 1],
                                            g.keys_only_var)
         IN IF comparison = "match" THEN <<"compared_match">>
            ELSE IF comparison = "partial" THEN <<"compared_partial">>
            ELSE <<"compared_different">>
    ELSE <<"compared_different">>

\* the items of tree1 and of tree2 for the aligned pairs
aligned_items(g, pairs, side) ==
    [n \in 1..Len(pairs) |->
        LET idx == pairs[n][side]
        IN IF idx # None
           THEN request_item(idx, (IF side = 1 THEN g.requests1 ELSE g.requests2)[idx + 1],
                             pair_tag(g, pairs[n][1], pairs[n][2]))
           ELSE placeholder_item]

\* the items of a tree in the display by index
indexed_items(requests) ==
    [n \in 1..Len(requests) |-> request_item(n - 1, requests[n], <<>>)]

\* update_comparison, variant: the items of the two lists are not deleted
\* before the records are inserted
update_comparison_keeps_rows(g) ==
    IF g.requests1 = <<>> /\ g.requests2 = <<>> THEN g
    ELSE LET reset == [g EXCEPT !.selected_request1 = NoRequest,
                                !.selected_request2 = NoRequest,
                                !.selected_item1 = None, !.selected_item2 = None,
                                !.compare_button = DISABLED]
         IN IF g.align_requests_var
            THEN LET shown(pairs) ==
                         [reset EXCEPT !.comparison_label = ZaprosyVyrovneny,
                                       !.sync_scroll_checkbox = NORMAL,
                                       !.tree1 = g.tree1 \o aligned_items(g, pairs, 1),
                                       !.tree2 = g.tree2 \o aligned_items(g, pairs, 2)]
                 IN shown(align_requests_like_vscode(g.requests1, g.requests2))
            ELSE [setup_sync_scroll([reset EXCEPT !.sync_scroll_var = FALSE])
                     EXCEPT !.comparison_label = AvtomaticheskoeSopostavlenie,
                            !.sync_scroll_checkbox = DISABLED,
                            !.tree1 = g.tree1 \o indexed_items(g.requests1),
                            !.tree2 = g.tree2 \o indexed_items(g.requests2)]
\* update_comparison
update_comparison(g) ==
    IF g.requests1 = <<>> /\ g.requests2 = <<>> THEN g
    ELSE LET reset == [g EXCEPT !.selected_request1 = NoRequest,
                                !.selected_request2 = NoRequest,
                                !.selected_item1 = None, !.selected_item2 = None,
                                !.compare_button = DISABLED]
         IN IF g.align_requests_var
            THEN LET shown(pairs) ==
                         [reset EXCEPT !.comparison_label = ZaprosyVyrovneny,
                                       !.sync_scroll_checkbox = NORMAL,
                                       !.tree1 = aligned_items(g, pairs, 1),
                                       !.tree2 = aligned_items(g, pairs, 2)]
                 IN shown(align_requests_like_vscode(g.requests1, g.requests2))
            ELSE [setup_sync_scroll([reset EXCEPT !.sync_scroll_var = FALSE])
                     EXCEPT !.comparison_label = AvtomaticheskoeSopostavlenie,
                            !.sync_scroll_checkbox = DISABLED,
                            !.tree1 = indexed_items(g.requests1),
                            !.tree2 = indexed_items(g.requests2)]

\* load_har_files with the two files of the folder
load_har_files(g, files) ==
    LET loaded(parsed1, parsed2) ==
            IF parsed1.raised THEN g
            ELSE IF parsed2.raised THEN [g EXCEPT !.requests1 = parsed1.requests]
            ELSE update_comparison([g EXCEPT !.requests1 = parsed1.requests,
                                             !.requests2 = parsed2.requests,
                                             !.info_label =
                                                 "Fayl 1: 1.har ("
                                                 \o ToString(Len(parsed1.requests))
                                                 \o " zaprosov) | Fayl 2: 2.har ("
                                                 \o ToString(Len(parsed2.requests))
                                                 \o " zaprosov)"])
    IN loaded(parse_har_file("to compare/1.har", files[1]),
              parse_har_file("to compare/2.har", files[2]))

(***************************************************************************)
(* The selection of records in the main window.  on_select_request is      *)
(* bound to <Button-1> of both lists; the item it reads, selection[0], is  *)
(* the item that the Treeview holds as selected when the handler runs.     *)
(***************************************************************************)
KlikniteNaZaprosy == "Kliknite na zaprosy dlya detalnogo sravneniya"

\* int(index_text) for a text of digits; ValueError is None
RECURSIVE int_of(_)
int_of(text) ==
    IF text = <<>> \/ \E i \in 1..Len(text) : text[i] \notin Digits \cup {"0"} THEN None
    ELSE IF Len(text) = 1
    THEN CHOOSE d \in 0..9 : str_of_int(d) = text
    ELSE 10 * int_of(SubSeq(text, 1, Len(text) - 1)) + int_of(<<text[Len(text)]>>)

\* requests.index(req): the first position of an equal record; ValueError is
\* None
index_of(requests, req) ==
    IF \E i \in 1..Len(requests) : requests[i] = req
    THEN (CHOOSE i \in 1..Len(requests) :
             requests[i] = req /\ \A j \in 1..(i - 1) : requests[j] # req) - 1
    ELSE None

\* the items of a list after the previous selection lost its tag 'selected'
\* and the item at position n got the tags read before, plus 'selected'
reselect(tree, selected_item, n, current_tags) ==
    LET restored == IF selected_item # None
                    THEN [tree EXCEPT ![selected_item].tags =
                                SelectSeq(@, LAMBDA tag : tag # "selected")]
                    ELSE tree
    IN [restored EXCEPT ![n].tags = current_tags \o <<"selected">>]

\* the branch of file_num in on_select_request
select_side(g, file_num, n, index) ==
    IF file_num = 1
    THEN [g EXCEPT !.selected_request1 = IF index < Len(g.requests1)
                                         THEN g.requests1[index + 1] ELSE NoRequest,
                   !.selected_item1 = n,
                   !.tree1 = reselect(g.tree1, g.selected_item1, n, g.tree1[n].tags)]
    ELSE [g EXCEPT !.selected_request2 = IF index < Len(g.requests2)
                                         THEN g.requests2[index + 1] ELSE NoRequest,
                   !.selected_item2 = n,
                   !.tree2 = reselect(g.tree2, g.selected_item2, n, g.tree2[n].tags)]

\* the part of on_select_request that updates compare_button and
\* comparison_label; a ValueError of list.index ends the handler where it is
selection_info(g) ==
    LET idx1 == index_of(g.requests1, g.selected_request1)
        idx2 == index_of(g.requests2, g.selected_request2)
        info1 == "Fayl 1: [" \o ToString(idx1) \o "] " \o g.selected_request1.method \o " "
        info2 == "Fayl 2: [" \o ToString(idx2) \o "] " \o g.selected_request2.method
    IN IF g.selected_request1 # NoRequest /\ g.selected_request2 # NoRequest
       THEN IF idx1 = None \/ idx2 = None THEN [g EXCEPT !.compare_button = NORMAL]
            ELSE [g EXCEPT !.compare_button = NORMAL,
                           !.comparison_label =
                               "Vybrany dlya detalnogo sravneniya: [" \o ToString(idx1) \o "] "
                               \o g.selected_request1.method \o " vs [" \o ToString(idx2)
                               \o "] " \o g.selected_request2.method]
       ELSE IF g.selected_request1 # NoRequest
       THEN IF idx1 = None THEN [g EXCEPT !.compare_button = DISABLED]
            ELSE [g EXCEPT !.compare_button = DISABLED,
                           !.comparison_label = info1 \o " - vyberite vtoroy zapros"]
       ELSE IF g.selected_request2 # NoRequest
       THEN IF idx2 = None THEN [g EXCEPT !.compare_button = DISABLED]
            ELSE [g EXCEPT !.compare_button = DISABLED,
                           !.comparison_label = info2 \o " - vyberite vtoroy zapros"]
       ELSE [g EXCEPT !.compare_button = DISABLED, !.comparison_label = KlikniteNaZaprosy]

\* on_select_request(tree, file_num) when selection[0] is the item at
\* position n of the list
on_select_request(g, file_num, n) ==
    LET item == (IF file_num = 1 THEN g.tree1 ELSE g.tree2)[n]
        index == int_of(item.text)
    IN IF index = None THEN g
       ELSE selection_info(select_side(g, file_num, n, index))

(***************************************************************************)
(* The captures found in the folder                                        *)
(***************************************************************************)
NumCaptures == 5       \* distinct contents of a .har file of the folder

Entry(method, path, headers, status) ==
    Obj(("request" :> Obj(("method" :> Str(method)) @@ ("url" :> Url(path))
                          @@ ("headers" :> List(headers))))
        @@ ("response" :> Obj("status" :> Num(status))))

CapturePool ==
    << <<"json", Capture_of(List(<<Entry("GET", <<"/", "a">>, <<Header("Accept", "1")>>, 200),
                                  Entry("GET", <<"/", "b">>, <<>>, 200)>>))>>,
       <<"json", Obj(EmptyDict)>>,
       <<"json", Capture_of(List(<<Entry("GET", <<"/", "a">>, <<Header("Accept", "2")>>, 200)>>))>>,
       <<"unreadable">>,
       <<"json", Capture_of(List(<<Entry("GET", <<"/", "b">>, <<>>, 200),
                                  Entry("POST", <<"/", "c">>, <<>>, 404),
                                  Entry("GET", <<"/", "a">>, <<Header("Accept", "1")>>, 200)>>))>>,
       <<"json", Capture_of(List(<<Entry("POST", <<"/", "a">>, <<Header("Accept", "1")>>, 200),
                                  Entry("GET", <<"/", "c">>, <<Header("Host", "1")>>, 200)>>))>> >>
Captures == {CapturePool[i] : i \in 1..NumCaptures}

\* the window after __init__, which ends with load_har_files()
Init ==
    /\ pc = "window"
    /\ to_compare \in Captures \X Captures
    /\ self = load_har_files(Fresh, to_compare)
    /\ CompareIdle
    /\ AlignIdle
    /\ FormatIdle
    /\ ParseIdle
    /\ TabIdle

\* a file of the folder is replaced
ReplaceFile ==
    /\ \E n \in 1..2, capture \in Captures :
          to_compare' = [to_compare EXCEPT ![n] = capture]
    /\ UNCHANGED <<pc, self>>
    /\ UNCHANGED <<compareVars, alignVars, formatVars, parseVars, tabVars>>

\* the button "Обновить": load_har_files
LoadHarFiles ==
    /\ self' = load_har_files(self, to_compare)
    /\ UNCHANGED <<pc, to_compare>>
    /\ UNCHANGED <<compareVars, alignVars, formatVars, parseVars, tabVars>>

\* a click on the check box of keys_only_var: the variable is toggled, then
\* update_comparison runs
ToggleKeysOnly ==
    /\ self' = update_comparison([self EXCEPT !.keys_only_var = ~@])
    /\ UNCHANGED <<pc, to_compare>>
    /\ UNCHANGED <<compareVars, alignVars, formatVars, parseVars, tabVars>>

\* a click on the check box of align_requests_var
ToggleAlignRequests ==
    /\ self' = update_comparison([self EXCEPT !.align_requests_var = ~@])
    /\ UNCHANGED <<pc, to_compare>>
    /\ UNCHANGED <<compareVars, alignVars, formatVars, parseVars, tabVars>>

\* a click on sync_scroll_checkbox, which reacts only while it is enabled:
\* the variable is toggled, then setup_sync_scroll runs
ToggleSyncScroll ==
    /\ self.sync_scroll_checkbox = NORMAL
    /\ self' = setup_sync_scroll([self EXCEPT !.sync_scroll_var = ~@])
    /\ UNCHANGED <<pc, to_compare>>
    /\ UNCHANGED <<compareVars, alignVars, formatVars, parseVars, tabVars>>

Next ==
    \/ ReplaceFile
    \/ LoadHarFiles
    \/ ToggleKeysOnly
    \/ ToggleAlignRequests
    \/ ToggleSyncScroll

Spec == Init /\ [][Next]_vars

(***************************************************************************)
(* The main window with the selection of records, over a smaller folder    *)
(***************************************************************************)
NumSelectCaptures == 2 \* distinct contents of a .har file of the folder
MaxSelectedTags == 1   \* most tags 'selected' that an item accumulates

SelectCaptures == {CapturePool[i] : i \in 1..NumSelectCaptures}

InitSelect ==
    /\ pc = "window"
    /\ to_compare \in SelectCaptures \X SelectCaptures
    /\ self = load_har_files(Fresh, to_compare)
    /\ CompareIdle
    /\ AlignIdle
    /\ FormatIdle
    /\ ParseIdle
    /\ TabIdle

\* a file of the folder is replaced
ReplaceSelectFile ==
    /\ \E n \in 1..2, capture \in SelectCaptures :
          to_compare' = [to_compare EXCEPT ![n] = capture]
    /\ UNCHANGED <<pc, self>>
    /\ UNCHANGED <<compareVars, alignVars, formatVars, parseVars, tabVars>>

\* a click on a list while one of its items is selected: on_select_request
SelectRequest ==
    /\ \E file_num \in 1..2 :
          \E n \in 1..Len(IF file_num = 1 THEN self.tree1 ELSE self.tree2) :
             /\ Len(SelectSeq((IF file_num = 1 THEN self.tree1 ELSE self.tree2)[n].tags,
                              LAMBDA tag : tag = "selected")) < MaxSelectedTags
             /\ self' = on_select_request(self, file_num, n)
    /\ UNCHANGED <<pc, to_compare>>
    /\ UNCHANGED <<compareVars, alignVars, formatVars, parseVars, tabVars>>

NextSelect ==
    \/ ReplaceSelectFile
    \/ LoadHarFiles
    \/ ToggleKeysOnly
    \/ ToggleAlignRequests
    \/ ToggleSyncScroll
    \/ SelectRequest

SpecSelect == InitSelect /\ [][NextSelect]_vars

(***************************************************************************)
(* Claims about compare_requests                                           *)
(***************************************************************************)
Compared == pc = "compared"
SamePath == req1.path = req2.path
SameRequestKeys ==
    /\ DOMAIN req1.query_params = DOMAIN req2.query_params
    /\ DOMAIN req1.headers = DOMAIN req2.headers
SameRequestContent ==
    /\ req1.method = req2.method
    /\ req1.query_params = req2.query_params
    /\ req1.headers = req2.headers
    /\ req1.post_data = req2.post_data
SameResponse ==
    /\ req1.response_status = req2.response_status
    /\ req1.response_headers = req2.response_headers
    /\ req1.response_body = req2.response_body

\* C1: records whose paths differ are classified 'different' in both modes,
\* whatever their other fields are, and 'different' is returned only when
\* the paths differ.
C1_PathGate ==
    Compared => (comparison_result = "different" <=> ~SamePath)

\* a keys-only call on two records that agree on everything but the path
C1_Witness ==
    /\ Compared /\ keys_only /\ ~SamePath
    /\ SameRequestContent /\ SameResponse
    /\ comparison_result = "different"

\* C2: with equal paths the keys-only result is 'match' exactly when the
\* query-parameter names and the request-header names are equal as sets,
\* and 'partial' otherwise; values, method and body have no influence.
C2_KeysOnly ==
    (Compared /\ keys_only /\ SamePath) =>
        /\ SameRequestKeys => comparison_result = "match"
        /\ ~SameRequestKeys => comparison_result = "partial"

\* a keys-only match of records that differ in method, header values,
\* parameter values and body
C2_Witness ==
    /\ Compared /\ keys_only /\ SamePath /\ SameRequestKeys
    /\ req1.method # req2.method
    /\ req1.headers # req2.headers
    /\ req1.query_params # req2.query_params
    /\ req1.post_data # req2.post_data
    /\ comparison_result = "match"

\* C3: with equal paths the full result is 'match' exactly when method,
\* query-parameter mapping, request-header mapping and body (absent being
\* different from empty) are equal, and 'partial' otherwise; the response
\* fields have no influence.
C3_Full ==
    (Compared /\ ~keys_only /\ SamePath) =>
        /\ SameRequestContent => comparison_result = "match"
        /\ ~SameRequestContent => comparison_result = "partial"

\* a full-mode 'partial' caused only by an absent body against an empty one
C3_Witness ==
    /\ Compared /\ ~keys_only /\ SamePath
    /\ req1.method = req2.method
    /\ req1.query_params = req2.query_params
    /\ req1.headers = req2.headers
    /\ req1.post_data = NoBody /\ req2.post_data = <<EmptyStr>>
    /\ comparison_result = "partial"

\* a full-mode 'match' of records whose responses differ
C3_WitnessResponse ==
    /\ Compared /\ ~keys_only /\ SamePath /\ ~SameResponse
    /\ comparison_result = "match"

\* C4: keys-only monotonicity: a pair with equal paths that matches in
\* full mode matches in keys-only mode.
C4_Monotone ==
    (Compared /\ ~keys_only /\ SamePath /\ comparison_result = "match") =>
        compare_requests(req1, req2, TRUE) = "match"

\* a full-mode match of two records with headers and parameters
C4_Witness ==
    /\ Compared /\ ~keys_only /\ SamePath
    /\ comparison_result = "match"
    /\ DOMAIN req1.headers # {} /\ DOMAIN req1.query_params # {}

(***************************************************************************)
(* Claims about align_requests_like_vscode                                 *)
(***************************************************************************)
Aligned == pc = "aligned"
paths1 == paths_of(requests1)
paths2 == paths_of(requests2)
Range(f) == {f[x] : x \in DOMAIN f}

\* positions of aligned_pairs whose first (second) component is index i
Rows1(i) == {k \in 1..Len(aligned_pairs) : aligned_pairs[k][1] = i}
Rows2(j) == {k \in 1..Len(aligned_pairs) : aligned_pairs[k][2] = j}

\* the pairs appended while an opcode with the given tag was processed
PairsOfRuns(tag) ==
    UNION {Range(pairs_of_opcode(op)) : op \in {o \in Range(opcodes) : o[1] = tag}}
Tags == {op[1] : op \in Range(opcodes)}

\* C5: alignment completeness: every index of capture 1 is the first
\* component of exactly one pair, every index of capture 2 the second
\* component of exactly one pair, and no other index occurs.
C5_Complete ==
    Aligned =>
        /\ \A i \in 0..(Len(requests1) - 1) : Cardinality(Rows1(i)) = 1
        /\ \A j \in 0..(Len(requests2) - 1) : Cardinality(Rows2(j)) = 1
        /\ \A k \in 1..Len(aligned_pairs) :
              /\ aligned_pairs[k][1] \in {None} \cup (0..(Len(requests1) - 1))
              /\ aligned_pairs[k][2] \in {None} \cup (0..(Len(requests2) - 1))

\* an alignment with a replace run of unequal lengths next to an equal run
C5_Witness ==
    /\ Aligned
    /\ "equal" \in Tags
    /\ \E op \in Range(opcodes) :
          op[1] = "replace" /\ op[3] - op[2] # op[5] - op[4]

\* C6: alignment order: the non-absent first components increase strictly
\* along the list, so do the non-absent second components, and no pair has
\* both components absent.
C6_Ordered ==
    Aligned =>
        /\ \A k, h \in 1..Len(aligned_pairs) :
              k < h =>
                /\ (aligned_pairs[k][1] # None /\ aligned_pairs[h][1] # None)
                      => aligned_pairs[k][1] < aligned_pairs[h][1]
                /\ (aligned_pairs[k][2] # None /\ aligned_pairs[h][2] # None)
                      => aligned_pairs[k][2] < aligned_pairs[h][2]
        /\ \A k \in 1..Len(aligned_pairs) : aligned_pairs[k] # <<None, None>>

\* an alignment with a pair absent on the left, a pair absent on the right
\* and a replace run of two records of capture 1
C6_Witness ==
    /\ Aligned
    /\ \E k, h \in 1..Len(aligned_pairs) :
          aligned_pairs[k][1] = None /\ aligned_pairs[h][2] = None
    /\ \E op \in Range(opcodes) : op[1] = "replace" /\ op[3] - op[2] >= 2

\* C7: alignment identity: two captures with the same paths in the same
\* order are aligned as (0,0), (1,1), ..., (n-1,n-1), all from equal runs.
C7_Identity ==
    (Aligned /\ paths1 = paths2) =>
        /\ aligned_pairs = [k \in 1..Len(requests1) |-> <<k - 1, k - 1>>]
        /\ Tags \subseteq {"equal"}

\* a capture of three records with a repeated path aligned with its copy
C7_Witness ==
    /\ Aligned /\ paths1 = paths2
    /\ Len(paths1) >= 3
    /\ \E k, h \in 1..Len(paths1) : k # h /\ paths1[k] = paths1[h]
    /\ \E k, h \in 1..Len(paths1) : paths1[k] # paths1[h]

\* length of a longest common subsequence of a[1..i] and b[1..j]
RECURSIVE LCS(_, _, _, _)
LCS(a, b, i, j) ==
    IF i = 0 \/ j = 0 THEN 0
    ELSE IF a[i] = b[j] THEN LCS(a, b, i - 1, j - 1) + 1
    ELSE Max(LCS(a, b, i - 1, j), LCS(a, b, i, j - 1))

\* length of the longest run of consecutive equal elements of a and b
RECURSIVE CommonRun(_, _, _, _)
CommonRun(a, b, i, j) ==
    IF i = 0 \/ j = 0 THEN 0
    ELSE IF a[i] = b[j] THEN CommonRun(a, b, i - 1, j - 1) + 1 ELSE 0
LongestCommonRun(a, b) ==
    LET lens == {CommonRun(a, b, i, j) : i \in 0..Len(a), j \in 0..Len(b)}
    IN CHOOSE m \in lens : \A x \in lens : x <= m

EqualCount == Cardinality(PairsOfRuns("equal"))

\* C8 as stated: the pairs from equal runs are as many as a longest common
\* subsequence of the two path sequences.
C8_Original ==
    Aligned => EqualCount = LCS(paths1, paths2, Len(paths1), Len(paths2))

\* C8, amended: the edit script need not be minimal.  The pairs from equal
\* runs pair equal paths, so they are at most as many as a longest common
\* subsequence; and for captures of fewer than 200 records they are at least
\* as many as the longest run of consecutive paths common to both captures.
C8_Bounds ==
    Aligned =>
        /\ \A p \in PairsOfRuns("equal") :
              /\ p[1] \in 0..(Len(paths1) - 1)
              /\ p[2] \in 0..(Len(paths2) - 1)
              /\ paths1[p[1] + 1] = paths2[p[2] + 1]
        /\ EqualCount <= LCS(paths1, paths2, Len(paths1), Len(paths2))
        /\ Len(paths2) < AutojunkLen => EqualCount >= LongestCommonRun(paths1, paths2)

\* an alignment that pairs fewer records than a longest common subsequence
C8_Witness ==
    /\ Aligned
    /\ EqualCount > 0
    /\ EqualCount < LCS(paths1, paths2, Len(paths1), Len(paths2))

\* 0-based indices of the occurrences of path P in a path sequence
Occurrences(ps, P) == {i \in 0..(Len(ps) - 1) : ps[i + 1] = P}
\* the k-th smallest element of a set of integers
Nth(S, k) == CHOOSE x \in S : Cardinality({y \in S : y < x}) = k - 1
Min(x, y) == IF x <= y THEN x ELSE y

\* C9 as stated: for every path P the k-th occurrence of P in capture 1 is
\* paired with the k-th occurrence of P in capture 2, for every k up to the
\* smaller occurrence count.
C9_Original ==
    Aligned =>
        \A P \in Range(paths1) \cap Range(paths2) :
            \A k \in 1..Min(Cardinality(Occurrences(paths1, P)),
                            Cardinality(Occurrences(paths2, P))) :
                <<Nth(Occurrences(paths1, P), k), Nth(Occurrences(paths2, P), k)>>
                    \in Range(aligned_pairs)

\* the pairs from equal runs whose record of capture 1 has path P
EqualPairsOf(P) ==
    {p \in PairsOfRuns("equal") : p[1] \in Occurrences(paths1, P)}

\* C9, amended: occurrence order holds among the paired occurrences only:
\* for every path P, the k-th occurrence of P in capture 1 that an equal run
\* pairs is paired with the k-th occurrence of P in capture 2 that an equal
\* run pairs; occurrences may be left unpaired on either side.
C9_PairedInOrder ==
    Aligned =>
        \A P \in Range(paths1) \cap Range(paths2) :
            LET S1 == {p[1] : p \in EqualPairsOf(P)}
                S2 == {p[2] : p \in EqualPairsOf(P)}
            IN /\ S2 \subseteq Occurrences(paths2, P)
               /\ Cardinality(S1) = Cardinality(S2)
               /\ EqualPairsOf(P) = {<<Nth(S1, k), Nth(S2, k)>> : k \in 1..Cardinality(S1)}

\* an alignment where the first occurrence of a path in capture 1 is left
\* unpaired and its second occurrence is paired with the first occurrence
\* in capture 2
C9_Witness ==
    /\ Aligned
    /\ \E P \in Range(paths1) \cap Range(paths2) :
          /\ Cardinality(Occurrences(paths1, P)) >= 2
          /\ <<Nth(Occurrences(paths1, P), 2), Nth(Occurrences(paths2, P), 1)>>
                \in PairsOfRuns("equal")
          /\ <<Nth(Occurrences(paths1, P), 1), None>> \in Range(aligned_pairs)

\* b is a with some elements removed
RECURSIVE IsSubsequence(_, _)
IsSubsequence(b, a) ==
    IF b = <<>> THEN TRUE
    ELSE IF a = <<>> THEN FALSE
    ELSE IF Head(a) = Head(b) THEN IsSubsequence(Tail(b), Tail(a))
    ELSE IsSubsequence(b, Tail(a))

Distinct(ps) == \A k, h \in 1..Len(ps) : k # h => ps[k] # ps[h]

\* C10: when capture 1 has pairwise distinct paths and capture 2 is
\* capture 1 with some records removed, every record of capture 2 is paired
\* with its copy, exactly the removed records get (i, absent), and there is
\* no insert or replace run; /a,/b,/c against /a,/c gives
\* (0,0),(1,absent),(2,1).
C10_Removed ==
    (Aligned /\ Distinct(paths1) /\ IsSubsequence(paths2, paths1)) =>
        /\ Tags \subseteq {"equal", "delete"}
        /\ \A j \in 0..(Len(paths2) - 1) :
              \E i \in 0..(Len(paths1) - 1) :
                  /\ paths1[i + 1] = paths2[j + 1]
                  /\ <<i, j>> \in Range(aligned_pairs)
        /\ \A i \in 0..(Len(paths1) - 1) :
              (paths1[i + 1] \notin Range(paths2)) <=> (<<i, None>> \in Range(aligned_pairs))
        /\ (paths1 = <<"/a", "/b", "/c">> /\ paths2 = <<"/a", "/c">>)
              => aligned_pairs = <<<<0, 0>>, <<1, None>>, <<2, 1>>>>

\* /a,/b,/c aligned with /a,/c
C10_Witness ==
    /\ Aligned
    /\ paths1 = <<"/a", "/b", "/c">> /\ paths2 = <<"/a", "/c">>
    /\ aligned_pairs = <<<<0, 0>>, <<1, None>>, <<2, 1>>>>


(***************************************************************************)
(* Claims about JsonFormatter.format_json_string (SpecFormat)              *)
(***************************************************************************)
Formatted == pc \in {"formatted", "reformatted"}
Parsed == IF json_str = NoBody THEN DecodeError ELSE json_loads(json_str[1])

\* C15 as stated: an absent payload is rendered as the placeholder and an
\* empty-string payload as something else
C15_Original ==
    Formatted =>
        /\ json_str = NoBody => formatted = Otsutstvuet
        /\ json_str = <<EmptyStr>> => formatted # Otsutstvuet

\* C15: an absent payload, an empty payload and a payload of whitespace only
\* are all rendered as the same placeholder; any other payload is rendered as
\* the placeholder only when it is the placeholder text itself
C15_BlankIsAbsent ==
    Formatted =>
        /\ (json_str = NoBody \/ is_blank(json_str[1])) => formatted = Otsutstvuet
        /\ (json_str # NoBody /\ ~is_blank(json_str[1]) /\ formatted = Otsutstvuet)
              => json_str[1] = Otsutstvuet

C15_Witness ==
    /\ pc = "formatted"
    /\ json_str = <<EmptyStr>>
    /\ formatted = Otsutstvuet

\* C16: formatting a formatted payload changes nothing; for a JSON payload
\* the rendering parses back to the value of the payload and is the dump of
\* that value
C16_Idempotent ==
    pc = "reformatted" =>
        /\ reformatted = formatted
        /\ Parsed[1] =>
              /\ json_loads(formatted)[1]
              /\ json_loads(formatted)[2] = Parsed[2]
              /\ json_dumps(json_loads(formatted)[2], 0) = formatted

\* an object of two members written in another form than its rendering
C16_Witness ==
    /\ pc = "reformatted"
    /\ Parsed[1]
    /\ Parsed[2][1] = "obj"
    /\ Cardinality(DOMAIN Parsed[2][2]) = 2
    /\ formatted # json_str[1]
    /\ reformatted = formatted


(***************************************************************************)
(* Claims about HarParser.parse_har_file (SpecParse)                       *)
(***************************************************************************)
ParsedFile == pc = "parsed"
Document == har_file[2]
\* the document is an object whose 'log' is an object whose 'entries' is a list
HasEntryList ==
    /\ har_file[1] = "json" /\ is_dict(Document)
    /\ "log" \in DOMAIN Document[2] /\ is_dict(Document[2]["log"])
    /\ "entries" \in DOMAIN Document[2]["log"][2]
    /\ Document[2]["log"][2]["entries"][1] = "list"
EntryList == Document[2]["log"][2]["entries"][2]
\* the document is an object without 'log', or its 'log' is an object
\* without 'entries'
MissingEntries ==
    /\ har_file[1] = "json" /\ is_dict(Document)
    /\ \/ "log" \notin DOMAIN Document[2]
       \/ /\ is_dict(Document[2]["log"])
          /\ "entries" \notin DOMAIN Document[2]["log"][2]

\* C12: for a document of N entries the call raises or returns exactly N
\* records, the k-th with index k and with the method, url and status of the
\* k-th entry
C12_AllOrNothing ==
    (ParsedFile /\ HasEntryList) =>
        IF parse_result.raised THEN \E k \in 1..Len(EntryList) : ~entry_ok(EntryList[k])
        ELSE /\ Len(parse_result.requests) = Len(EntryList)
             /\ \A k \in 1..Len(EntryList) :
                   LET r == parse_result.requests[k]
                       request_data == get(EntryList[k], "request", Obj(EmptyDict))
                       response_data == get(EntryList[k], "response", Obj(EmptyDict))
                   IN /\ r.index = k - 1
                      /\ r.method = get(request_data, "method", Str(""))[2]
                      /\ r.url = get(request_data, "url", Str(EmptyStr))[2]
                      /\ r.response_status = get(response_data, "status", Num(0))[2]

\* two different entries came back as two records
C12_Witness ==
    /\ ParsedFile /\ HasEntryList
    /\ ~parse_result.raised
    /\ Len(parse_result.requests) = 2
    /\ parse_result.requests[1].method # parse_result.requests[2].method

\* a readable entry followed by an unreadable one: nothing is returned
C12_WitnessRaised ==
    /\ ParsedFile /\ HasEntryList
    /\ Len(EntryList) = 2
    /\ entry_ok(EntryList[1]) /\ ~entry_ok(EntryList[2])
    /\ parse_result.raised

\* C13 as stated: a document without 'log', or with a 'log' without
\* 'entries', makes the call raise an error naming the file
C13_Original ==
    (ParsedFile /\ MissingEntries) =>
        parse_result.raised /\ parse_result.file_path = file_path

\* C13: a document without 'log', or with a 'log' without 'entries', yields
\* the empty record sequence; a file that cannot be read or is no JSON makes
\* the call raise, and every error raised names the file
C13_MissingIsEmpty ==
    ParsedFile =>
        /\ MissingEntries => parse_result = Returned(<<>>)
        /\ har_file[1] # "json" => parse_result.raised
        /\ parse_result.raised => parse_result.file_path = file_path

C13_Witness ==
    /\ ParsedFile /\ MissingEntries
    /\ "log" \in DOMAIN Document[2]
    /\ parse_result = Returned(<<>>)

name_of(header) == get(header, "name", Str(""))[2]
value_of(header) == get(header, "value", Str(""))[2]
\* the mapping has the names of the list, each with the value of its last
\* occurrence
LastWins(headers, hs) ==
    /\ DOMAIN headers = {name_of(hs[i]) : i \in 1..Len(hs)}
    /\ \A i \in 1..Len(hs) :
          (\A j \in (i + 1)..Len(hs) : name_of(hs[j]) # name_of(hs[i]))
             => headers[name_of(hs[i])] = value_of(hs[i])

\* C14: in every record returned, the request headers and the response
\* headers map each name of the entry's header list to the value of the
\* last header of that name
C14_LastWins ==
    (ParsedFile /\ HasEntryList /\ ~parse_result.raised) =>
        \A k \in 1..Len(EntryList) :
            LET request_data == get(EntryList[k], "request", Obj(EmptyDict))
                response_data == get(EntryList[k], "response", Obj(EmptyDict))
            IN /\ LastWins(parse_result.requests[k].headers,
                           get(request_data, "headers", List(<<>>))[2])
               /\ LastWins(parse_result.requests[k].response_headers,
                           get(response_data, "headers", List(<<>>))[2])

\* a request header list with the same name twice, with two values
C14_Witness ==
    /\ ParsedFile /\ HasEntryList /\ ~parse_result.raised
    /\ Len(EntryList) = 1
    /\ LET hs == get(get(EntryList[1], "request", Obj(EmptyDict)), "headers", List(<<>>))[2]
       IN /\ Len(hs) = 2
          /\ name_of(hs[1]) = name_of(hs[2])
          /\ value_of(hs[1]) = "2" /\ value_of(hs[2]) = "1"
          /\ parse_result.requests[1].headers[name_of(hs[1])] = "1"


(***************************************************************************)
(* Claims about the highlighting of the detail view (SpecTab)              *)
(***************************************************************************)
Shown == pc = "shown"
lines1 == split(text1.content, "\n")
lines2 == split(text2.content, "\n")
\* the 0-based lines of one side that lie in a run of the edit script ops
\* with the given tag
LinesOfRuns(ops, tag, side) ==
    UNION {IF side = 1 THEN ops[k][2]..(ops[k][3] - 1) ELSE ops[k][4]..(ops[k][5] - 1) :
              k \in {k \in 1..Len(ops) : ops[k][1] = tag}}
\* the lines that carry the tag 'same', in order
SameLines(tags, lines) ==
    LET marked == [n \in 1..Len(lines) |-> IF "same" \in tags[n] THEN <<lines[n]>> ELSE <<>>]
    IN SelectSeq(marked, LAMBDA l : l # <<>>)
FullDiff == highlight_differences(text1.content, text2.content)
WhollySame ==
    /\ text1.tags = [n \in 1..Len(lines1) |-> {"keys_same"}]
    /\ text2.tags = [n \in 1..Len(lines2) |-> {"keys_same"}]

\* C17: in full mode every line of both texts carries exactly one tag,
\* 'same' or 'different'; it is 'same' exactly when it lies in an 'equal'
\* run of the line-level edit script, 'different' in a delete, insert or
\* replace run, and never 'missing'; the 'same' lines of the two texts are
\* the same lines
C17_FullMode ==
    (Shown /\ ~keys_only) =>
        LET l1 == lines1
            l2 == lines2
            ops == get_opcodes(l1, l2)
            equal1 == LinesOfRuns(ops, "equal", 1)
            equal2 == LinesOfRuns(ops, "equal", 2)
            other1 == LinesOfRuns(ops, "delete", 1) \cup LinesOfRuns(ops, "replace", 1)
            other2 == LinesOfRuns(ops, "insert", 2) \cup LinesOfRuns(ops, "replace", 2)
        IN /\ Len(text1.tags) = Len(l1) /\ Len(text2.tags) = Len(l2)
           /\ \A n \in 1..Len(l1) :
                 /\ text1.tags[n] \in {{"same"}, {"different"}}
                 /\ text1.tags[n] = {"same"} <=> (n - 1) \in equal1
                 /\ (n - 1) \in other1 => text1.tags[n] = {"different"}
           /\ \A n \in 1..Len(l2) :
                 /\ text2.tags[n] \in {{"same"}, {"different"}}
                 /\ text2.tags[n] = {"same"} <=> (n - 1) \in equal2
                 /\ (n - 1) \in other2 => text2.tags[n] = {"different"}
           /\ SameLines(text1.tags, l1) = SameLines(text2.tags, l2)

\* two texts with an equal run and a replace run
C17_Witness ==
    /\ Shown /\ ~keys_only
    /\ \E n \in 1..Len(text1.tags) : text1.tags[n] = {"same"}
    /\ \E n \in 1..Len(text2.tags) : text2.tags[n] = {"different"}
    /\ LET ops == get_opcodes(lines1, lines2)
       IN LinesOfRuns(ops, "equal", 1) # {} /\ LinesOfRuns(ops, "replace", 1) # {}

\* the runs of a delete and of an insert are tagged too
C17_WitnessDeleteInsert ==
    /\ Shown /\ ~keys_only
    /\ LET ops == get_opcodes(lines1, lines2)
       IN LinesOfRuns(ops, "delete", 1) # {} \/ LinesOfRuns(ops, "insert", 2) # {}

\* a body that is there and parses to an object / its top-level keys
IsObject(body) ==
    truthy(body) /\ json_loads(body[1])[1] /\ json_loads(body[1])[2][1] = "obj"
KeysOf(body) == DOMAIN json_loads(body[1])[2][2]

\* C18 as stated: the body region is wholly 'same' only when both payloads
\* are there and parse to objects with equal key sets, and a payload that is
\* missing, does not parse or is no object gives the full diff
C18_Original ==
    (Shown /\ keys_only /\ content_type = "body") =>
        /\ WhollySame => /\ IsObject(req1.post_data) /\ IsObject(req2.post_data)
                         /\ KeysOf(req1.post_data) = KeysOf(req2.post_data)
        /\ (~IsObject(req1.post_data) \/ ~IsObject(req2.post_data))
              => <<text1.tags, text2.tags>> = FullDiff

\* a payload counts as an object in the body category: it is missing or
\* empty (then its key set is empty) or it parses to an object
CountsAsObject(body) == ~truthy(body) \/ IsObject(body)
CountedKeys(body) == IF truthy(body) THEN KeysOf(body) ELSE {}

\* C18: in keys-only mode the body region is wholly 'keys_same' exactly when
\* each payload is missing, empty or an object and the key sets (empty for a
\* missing or empty payload) are equal; otherwise the tags are those of the
\* full line-level diff of the two rendered texts
C18_BodyKeys ==
    (Shown /\ keys_only /\ content_type = "body") =>
        IF /\ CountsAsObject(req1.post_data) /\ CountsAsObject(req2.post_data)
           /\ CountedKeys(req1.post_data) = CountedKeys(req2.post_data)
        THEN WhollySame
        ELSE <<text1.tags, text2.tags>> = FullDiff

\* a missing payload beside the payload {} is shown wholly 'keys_same'
C18_Witness ==
    /\ Shown /\ keys_only /\ content_type = "body"
    /\ ~truthy(req1.post_data)
    /\ IsObject(req2.post_data) /\ KeysOf(req2.post_data) = {}
    /\ WhollySame

\* a payload that does not parse gives the full diff
C18_WitnessFullDiff ==
    /\ Shown /\ keys_only /\ content_type = "body"
    /\ truthy(req1.post_data) /\ ~json_loads(req1.post_data[1])[1]
    /\ IsObject(req2.post_data)
    /\ <<text1.tags, text2.tags>> = FullDiff
    /\ ~WhollySame

\* C19 as stated: the response region is wholly 'same' only when the
\* statuses are equal, the header names are equal and both response bodies
\* parse to objects with equal key sets, and a response body that does not
\* parse or is no object gives the full diff
C19_Original ==
    (Shown /\ keys_only /\ content_type = "response") =>
        /\ WhollySame => /\ req1.response_status = req2.response_status
                         /\ DOMAIN req1.response_headers = DOMAIN req2.response_headers
                         /\ IsObject(req1.response_body) /\ IsObject(req2.response_body)
                         /\ KeysOf(req1.response_body) = KeysOf(req2.response_body)
        /\ (\E body \in {req1.response_body, req2.response_body} :
               truthy(body) /\ ~IsObject(body))
              => <<text1.tags, text2.tags>> = FullDiff

\* the key set a response body contributes: its keys if it is an object,
\* the empty set otherwise
ResponseBodyKeys(body) == IF IsObject(body) THEN KeysOf(body) ELSE {}

\* C19: in keys-only mode the response region is wholly 'keys_same' exactly
\* when the statuses are equal, the response-header name sets are equal and
\* the response bodies contribute equal key sets, where a body that is
\* missing, empty, unparseable or no object contributes the empty set;
\* otherwise the tags are those of the full line-level diff
C19_ResponseKeys ==
    (Shown /\ keys_only /\ content_type = "response") =>
        IF /\ req1.response_status = req2.response_status
           /\ DOMAIN req1.response_headers = DOMAIN req2.response_headers
           /\ ResponseBodyKeys(req1.response_body) = ResponseBodyKeys(req2.response_body)
        THEN WhollySame
        ELSE <<text1.tags, text2.tags>> = FullDiff

\* two different response bodies that do not parse to objects are shown
\* wholly 'keys_same'
C19_Witness ==
    /\ Shown /\ keys_only /\ content_type = "response"
    /\ truthy(req1.response_body) /\ ~IsObject(req1.response_body)
    /\ truthy(req2.response_body) /\ ~IsObject(req2.response_body)
    /\ req1.response_body # req2.response_body
    /\ WhollySame


(***************************************************************************)
(* Claims about the lists of the main window (Spec)                        *)
(***************************************************************************)
\* the lists show the records held, under the flags held: update_comparison
\* has run since the records or a flag last changed
Displayed ==
    /\ pc = "window"
    /\ self.requests1 # <<>> \/ self.requests2 # <<>>
    /\ update_comparison(self) = self
\* the item of one side for the pair (idx1, idx2), classified as in the
\* path-aware display
PairItem(side, idx1, idx2) ==
    IF <<idx1, idx2>>[side] = None THEN placeholder_item
    ELSE request_item(<<idx1, idx2>>[side],
                      (IF side = 1 THEN self.requests1 ELSE self.requests2)[<<idx1, idx2>>[side] + 1],
                      pair_tag(self, idx1, idx2))

\* C11: with alignment off the lists show one pair (i, i) for every i below
\* max(len1, len2), the shorter side absent beyond its length, each pair
\* classified as in the path-aware display
C11_IndexPairing ==
    (Displayed /\ ~self.align_requests_var) =>
        LET len1 == Len(self.requests1)
            len2 == Len(self.requests2)
        IN /\ Len(self.tree1) = Max(len1, len2)
           /\ Len(self.tree2) = Max(len1, len2)
           /\ \A i \in 0..(Max(len1, len2) - 1) :
                 LET idx1 == IF i < len1 THEN i ELSE None
                     idx2 == IF i < len2 THEN i ELSE None
                 IN /\ self.tree1[i + 1] = PairItem(1, idx1, idx2)
                    /\ self.tree2[i + 1] = PairItem(2, idx1, idx2)

\* C20: in the path-aware display every pair with one side absent is shown
\* 'compared_different' on the item of the record and on the placeholder
\* item of the absent side, whatever keys_only_var is
C20_AbsentIsDifferent ==
    (Displayed /\ self.align_requests_var) =>
        LET pairs == align_requests_like_vscode(self.requests1, self.requests2)
        IN /\ Len(self.tree1) = Len(pairs) /\ Len(self.tree2) = Len(pairs)
           /\ \A n \in 1..Len(pairs) :
                 (pairs[n][1] = None \/ pairs[n][2] = None) =>
                    /\ self.tree1[n].tags = <<"compared_different">>
                    /\ self.tree2[n].tags = <<"compared_different">>
                    /\ self.tree1[n].text = IF pairs[n][1] = None THEN <<"-">>
                                            ELSE str_of_int(pairs[n][1])
                    /\ self.tree2[n].text = IF pairs[n][2] = None THEN <<"-">>
                                            ELSE str_of_int(pairs[n][2])

\* keys-only display with a record of capture 1 that has no counterpart and
\* a record of capture 2 that has none
C20_Witness ==
    /\ Displayed /\ self.align_requests_var /\ self.keys_only_var
    /\ \E n \in 1..Len(self.tree1) :
          /\ self.tree2[n] = placeholder_item
          /\ self.tree1[n].text # <<"-">>
          /\ self.tree1[n].tags = <<"compared_different">>
    /\ \E n \in 1..Len(self.tree1) :
          /\ self.tree1[n] = placeholder_item
          /\ self.tree2[n].text # <<"-">>
          /\ self.tree2[n].tags = <<"compared_different">>

(***************************************************************************)
(* Claims about the recomputation of the lists                             *)
(***************************************************************************)
Window == pc = "window"
Rows(g) == <<g.tree1, g.tree2>>
Held(g) == <<g.requests1, g.requests2>>

\* C21: update_comparison, called with the check boxes in any position (as
\* a toggle of keys_only_var or of align_requests_var does), leaves
\* requests1 and requests2 with all fields of their records as they are, and
\* a second call with the same check boxes leaves the same rows with the
\* same tags as the first did
C21_Recomputation ==
    Window =>
        \A k \in BOOLEAN, a \in BOOLEAN :
            LET once == update_comparison([self EXCEPT !.keys_only_var = k,
                                                       !.align_requests_var = a])
                twice == update_comparison(once)
            IN /\ Held(once) = Held(self)
               /\ Held(twice) = Held(self)
               /\ once.keys_only_var = k /\ once.align_requests_var = a
               /\ Rows(twice) = Rows(once)
\* a window that shows two captures aligned and compared by keys, one row
\* classified 'match', with a record selected since the rows were computed:
\* the next call recomputes the rows without the selection
C21_Witness ==
    /\ Window
    /\ self.requests1 # <<>> /\ self.requests2 # <<>>
    /\ self.keys_only_var /\ self.align_requests_var
    /\ \E n \in 1..Len(self.tree1) :
          self.tree1[n].tags = <<"compared_match", "selected">>
    /\ Rows(update_comparison(self)) # Rows(self)

(***************************************************************************)
(* Claims about the paths and the query parameters of parsed records       *)
(***************************************************************************)
\* C22: two records of a parsed capture with equal paths have equal
\* query_params; compared by keys they are 'match' exactly when the name sets
\* of their request headers are equal, and compared in full they are
\* 'partial' only with different methods, request headers or request bodies
C22_PathFixesQuery ==
    ParsedFile /\ ~parse_result.raised =>
        \A i, j \in 1..Len(parse_result.requests) :
            LET r1 == parse_result.requests[i]
                r2 == parse_result.requests[j]
            IN r1.path = r2.path =>
                  /\ r1.query_params = r2.query_params
                  /\ compare_requests(r1, r2, TRUE) = "match"
                        <=> DOMAIN r1.headers = DOMAIN r2.headers
                  /\ compare_requests(r1, r2, FALSE) = "partial"
                        => \/ r1.method # r2.method
                           \/ r1.headers # r2.headers
                           \/ r1.post_data # r2.post_data
\* a capture of two records with the same path and query string and headers
\* of different names: 'partial' by keys, and query_params is not empty
C22_Witness ==
    /\ ParsedFile /\ ~parse_result.raised
    /\ Len(parse_result.requests) = 2
    /\ LET r1 == parse_result.requests[1]
           r2 == parse_result.requests[2]
       IN /\ r1.path = r2.path
          /\ DOMAIN r1.query_params # {}
          /\ DOMAIN r1.headers # DOMAIN r2.headers
          /\ compare_requests(r1, r2, TRUE) = "partial"

(***************************************************************************)
(* Claims about the runs of the path-aware alignment                       *)
(***************************************************************************)
\* the pairs of a run that have a record on both sides
BothPresent(op) ==
    {m \in 1..Len(pairs_of_opcode(op)) :
        pairs_of_opcode(op)[m][1] # None /\ pairs_of_opcode(op)[m][2] # None}

\* C23: in the alignment of two captures (of fewer than 200 records) a pair
\* with a record on both sides comes from a replace run or from an equal
\* run; from a replace run its two paths differ and it is classified
\* 'different', from an equal run it is classified 'match' or 'partial',
\* in both comparison modes and whatever the request headers of the records
C23_ReplaceRunsDiffer ==
    pc = "aligned" =>
        \A n \in 1..Len(opcodes) :
            \A m \in BothPresent(opcodes[n]) :
                LET tag == opcodes[n][1]
                    pair == pairs_of_opcode(opcodes[n])[m]
                    r1 == requests1[pair[1] + 1]
                    r2 == requests2[pair[2] + 1]
                IN /\ tag \in {"equal", "replace"}
                   /\ tag = "replace" => r1.path # r2.path
                   /\ \A k \in BOOLEAN, h \in HeaderMaps :
                         LET c == compare_requests(r1, [r2 EXCEPT !.headers = h], k)
                         IN /\ c = "different" <=> tag = "replace"
                            /\ c \in {"match", "partial"} <=> tag = "equal"
\* an alignment with an equal run and a replace run that pairs two records,
\* where the pair of the equal run is 'partial' once the headers differ
C23_Witness ==
    /\ pc = "aligned"
    /\ \E n \in 1..Len(opcodes) :
          opcodes[n][1] = "replace" /\ BothPresent(opcodes[n]) # {}
    /\ \E n \in 1..Len(opcodes) :
          /\ opcodes[n][1] = "equal"
          /\ \E m \in BothPresent(opcodes[n]), h \in HeaderMaps :
                LET pair == pairs_of_opcode(opcodes[n])[m]
                IN compare_requests(requests1[pair[1] + 1],
                                    [requests2[pair[2] + 1] EXCEPT !.headers = h],
                                    FALSE) = "partial"

(***************************************************************************)
(* Claims about the state of the main window                               *)
(***************************************************************************)
\* C24: in the main window, whenever align_requests_var is off,
\* sync_scroll_var is off and the check box of synchronous scrolling is
\* disabled
C24_SyncOnlyWhileAligned ==
    Window /\ ~self.align_requests_var =>
        ~self.sync_scroll_var /\ self.sync_scroll_checkbox = DISABLED

\* the rows that the two lists show for the records held
RowsOfHeld(g) ==
    IF g.align_requests_var
    THEN <<aligned_items(g, align_requests_like_vscode(g.requests1, g.requests2), 1),
           aligned_items(g, align_requests_like_vscode(g.requests1, g.requests2), 2)>>
    ELSE <<indexed_items(g.requests1), indexed_items(g.requests2)>>
\* load_har_files parses both files of the folder without an error
BothParse ==
    /\ ~parse_har_file("to compare/1.har", to_compare[1]).raised
    /\ ~parse_har_file("to compare/2.har", to_compare[2]).raised

\* C25: after a load_har_files call that parses both files and after a
\* toggle of keys_only_var or align_requests_var, no record and no item is
\* selected, the button of the detailed comparison is disabled and the two
\* lists show the rows of requests1 and requests2 as they are held then
C25_ClearedAfterLoadOrToggle ==
    [][(\/ LoadHarFiles /\ BothParse
        \/ ToggleKeysOnly
        \/ ToggleAlignRequests)
          => /\ self'.selected_request1 = NoRequest
             /\ self'.selected_request2 = NoRequest
             /\ self'.selected_item1 = None
             /\ self'.selected_item2 = None
             /\ self'.compare_button = DISABLED
             /\ Rows(self') = RowsOfHeld(self')]_vars

\* C26: a load_har_files call in which the parsing of one of the two files
\* raises leaves requests1 and requests2 as they were before the call
C26_FailedLoadKeepsBoth ==
    [][LoadHarFiles /\ ~BothParse => Held(self') = Held(self)]_vars

====
